---- MODULE Spec2Model ----
(***************************************************************************)
(* Model of the hyperlit web client: the excerpt / highlight utilities     *)
(* (web/src/utils/searchHighlight.ts), the search pane (SearchPage.tsx),   *)
(* the hot-reload channel (web/src/api/sse.ts) and the App shell           *)
(* (web/src/App.tsx).                                                      *)
(*                                                                         *)
(* A JavaScript string is a sequence of UTF-16 code units; a code unit is  *)
(* written as a one-token TLA+ string.  Positions are the 0-based          *)
(* positions of the source; -1 is "not found".                             *)
(***************************************************************************)
EXTENDS Integers, Sequences, FiniteSets, Bags, TLC

VARIABLES
    \* ---- searchHighlight.ts, as SearchPage's preview calls it
    content,      \* the document content handed to extractExcerpt
    query,        \* the search phrase as typed
    hlPc,         \* "input" | "preview" | "highlight"
    excerptRes,   \* result of extractExcerpt: Null or [excerpt, matchStart, matchLength, loc]
    hlText,       \* the text handed to highlightMatches (empty before the call)
    segments,     \* result of highlightMatches on hlText
    \* ---- App.tsx
    searchQuery,        \* App state searchQuery
    reloadKey,          \* App state reloadKey, the key of <Main>
    selectedDocId,      \* App state selectedDocId ("null" when none)
    hash,               \* App state hash
    locationHash,       \* window.location.hash
    hashChangePending,  \* a hashchange event is queued
    \* ---- sse.ts
    sse,                \* the EventSource: "none" | "open" | "closed"
    fileChangedSeen,    \* number of 'file-changed' events dispatched so far
    \* ---- SearchPage.tsx (the instance mounted under <Main key={reloadKey}>)
    spResults,          \* state results
    spAllDocuments,     \* state allDocuments
    spHasSearched,      \* state hasSearched
    spTimer,            \* the pending setTimeout of the search effect, or Null
    spMountKey,         \* the reloadKey under which this instance was mounted
    docsFetches,        \* number of getAllDocuments() calls so far
    \* ---- DocumentPage.tsx (mounted while selectedDocId is set)
    dp,                 \* Null, or [documentId, document, loading, error, mountKey]
    \* ---- fetch
    inflight,           \* requests sent by the mounted panes and not yet answered
    \* ---- a document id on its way through the hash to the request URL
    rtId,               \* the id goToDocument is called with
    rtPc,               \* "idle" | "input" | "written" | "routed" | "requested"
    rtHash,             \* window.location.hash after goToDocument
    rtSelected,         \* what the route effect hands to setSelectedDocId
    rtRequest,          \* the URL getDocument fetches
    \* ---- useScrollRestoration, one pane
    scTop,              \* element.scrollTop of the mounted pane
    scEvent,            \* a scroll event is queued for the pane's listener
    scStore,            \* scrollPositions.get(key), -1 when undefined
    scTimer,            \* the debounce timer of handleScroll is pending
    scTimeoutId,        \* timeoutId !== null
    scRaf,              \* the position a pending restore will scroll to, or -1
    scAtUnmount,        \* scrollTop when the pane was last unmounted, or -1
    scRestored,         \* the saved position the last mount read, or -1
    scRemounts,         \* number of remounts so far
    \* ---- the core: watched files, Index, Reload Coordinator
    svFs,               \* file -> its content on disk: [rev, lines]
    svIndex,            \* the Index: the set of live Documents
    svState,            \* file -> "Unchanged" | "ChangePending" | "Reextracting" | "Swapped"
    svRead,             \* file -> the content the running extraction read
    svDirty,            \* file -> it changed again during the extraction
    svLast,             \* file -> "none" | "swapped" | "failed": how its last extraction ended
    svChanges,          \* number of change events so far
    \* ---- a query reading the Index
    qPc,                \* "idle" | "reading" | "done"
    qSnap,              \* the snapshot the query took
    qSeen,              \* the Documents it has read
    qTodo,              \* the sequence of ids it has still to read
    qVersions,          \* the values the Index has had since the query began
    \* ---- the Search Engine ranking one query
    rkIndex,            \* document id -> [titleTf, contentTf]: term frequency of the query per field
    rkResults,          \* the hits of the last search, in rank order
    rkPrev,             \* the hits of the search before it
    rkPc,               \* "idle" | "searched" | "repeated"
    \* ---- the document pane's back control
    backClicks,         \* number of activations of '<- Back to search' so far
    \* ---- the life of the event connection
    esMounted,          \* App is mounted
    esMounts,           \* number of mounts of App so far
    esSources,          \* the EventSources constructed so far: "open" | "closed" each
    esCleanup,          \* what the cleanup returned by setupSSE closes: a source, or 0 for the no-op
    esThrew,            \* setupSSE has thrown
    esQueue,            \* event tasks queued by the browser: [source, type]
    esReloadKey,        \* reloadKey of App
    \* ---- the preview of one result card
    pvContent,          \* result.document.content
    pvQuery,            \* the query prop of SearchPage
    pvHasSearched,      \* SearchPage state hasSearched
    pvMatchType,        \* result.match_type
    pvPc,               \* "input" | "shown"
    pvShown             \* what <ContentPreview> renders: [kind, parts] or [kind, text]

hlVars == <<content, query, hlPc, excerptRes, hlText, segments>>

appVars == <<searchQuery, reloadKey, selectedDocId, hash, locationHash, hashChangePending>>

sseVars == <<sse, fileChangedSeen>>

spVars == <<spResults, spAllDocuments, spHasSearched, spTimer, spMountKey, docsFetches>>

uiVars == <<appVars, sseVars, spVars, dp, inflight>>

rtVars == <<rtId, rtPc, rtHash, rtSelected, rtRequest>>
\* What the actions of one part leave alone.
scVars == <<scTop, scEvent, scStore, scTimer, scTimeoutId, scRaf, scAtUnmount, scRestored, scRemounts>>
svVarsCore == <<svFs, svIndex, svState, svRead, svDirty, svLast, svChanges>>
qVars == <<qPc, qSnap, qSeen, qTodo, qVersions>>
svVars == <<svVarsCore, qVars>>
rkVars == <<rkIndex, rkResults, rkPrev, rkPc>>
clVars == <<backClicks>>
\* The groups added last; every action of the parts above leaves them alone.
esVars == <<esMounted, esMounts, esSources, esCleanup, esThrew, esQueue, esReloadKey>>
pvVars == <<pvContent, pvQuery, pvHasSearched, pvMatchType, pvPc, pvShown>>
xVars == <<clVars, esVars, pvVars>>
offUiVars == <<hlVars, rtVars, scVars, svVars, rkVars, xVars>>
offHlVars == <<uiVars, rtVars, scVars, svVars, rkVars, xVars>>
offRtVars == <<hlVars, uiVars, scVars, svVars, rkVars, xVars>>
offScVars == <<hlVars, uiVars, rtVars, svVars, rkVars, xVars>>
offSvVars == <<hlVars, uiVars, rtVars, scVars, rkVars, xVars>>
offRkVars == <<hlVars, uiVars, rtVars, scVars, svVars, xVars>>

vars == <<hlVars, uiVars, rtVars, scVars, svVars, rkVars, xVars>>

\* null / undefined, as a record so that it compares with the records it stands in for
Null == [null |-> TRUE]

(***************************************************************************)
(* Bounds of the enumerated inputs.                                        *)
(***************************************************************************)
MaxContentLen == 3   \* content: at most this many blocks (a code unit or a pad)
MaxQueryLen == 2     \* query: at most this many code units
PadLen == 100        \* length of one pad block of "x" code units

(***************************************************************************)
(* Code units.  "Idot" is U+0130 (capital I with dot above), "cdot" is     *)
(* U+0307 (combining dot above).  "x" only occurs in pad blocks.  The       *)
(* letter of a query is typed in upper case, so that it matches a letter   *)
(* of the content only through the case conversions.                       *)
(***************************************************************************)
ContentUnits == {"i", "I", "Idot", " ", "."}
QueryUnits == {"I", "Idot", " ", "."}
PAD == "PAD"

Min(S) == CHOOSE m \in S : \A n \in S : m <= n
Max(S) == CHOOSE m \in S : \A n \in S : m >= n

\* All sequences over S of length 0..n.
SeqsUpTo(S, n) == UNION {[1..k -> S] : k \in 0..n}

Pad(n) == [k \in 1..n |-> "x"]

\* A content is written as blocks: a code unit, or PAD for PadLen times "x".
RECURSIVE Flatten(_)
Flatten(blocks) ==
    IF blocks = <<>> THEN <<>>
    ELSE (IF Head(blocks) = PAD THEN Pad(PadLen) ELSE <<Head(blocks)>>)
         \o Flatten(Tail(blocks))

Contents == {Flatten(b) : b \in SeqsUpTo(ContentUnits \cup {PAD}, MaxContentLen)}
Queries == SeqsUpTo(QueryUnits, MaxQueryLen)

(***************************************************************************)
(* String.prototype operations used by the source.                         *)
(***************************************************************************)
\* String.prototype.toLowerCase on one code unit: the Unicode default case
\* conversion, under which U+0130 becomes the two units U+0069 U+0307.
lowerUnit(c) ==
    CASE c = "I" -> <<"i">>
      [] c = "Idot" -> <<"i", "cdot">>
      [] OTHER -> <<c>>

\* String.prototype.toLowerCase: every unit replaced by its lower case, left to
\* right; the units before the first one whose lower case is two units long keep
\* their positions.
RECURSIVE toLowerCase(_)
toLowerCase(s) ==
    LET wide == {k \in 1..Len(s) : Len(lowerUnit(s[k])) # 1}
    IN IF wide = {} THEN [k \in 1..Len(s) |-> lowerUnit(s[k])[1]]
       ELSE LET p == Min(wide)
            IN [k \in 1..(p - 1) |-> lowerUnit(s[k])[1]]
               \o lowerUnit(s[p])
               \o toLowerCase(SubSeq(s, p + 1, Len(s)))

isWhiteSpace(c) == c = " "

\* String.prototype.trim
trim(s) ==
    LET keep == {k \in 1..Len(s) : ~isWhiteSpace(s[k])}
    IN IF keep = {} THEN <<>> ELSE SubSeq(s, Min(keep), Max(keep))

\* String.prototype.substring(start, end): both clamped to 0..length, swapped
\* when start > end.
substring(s, start, end) ==
    LET a == IF start < 0 THEN 0 ELSE IF start > Len(s) THEN Len(s) ELSE start
        b == IF end < 0 THEN 0 ELSE IF end > Len(s) THEN Len(s) ELSE end
        lo == IF a <= b THEN a ELSE b
        hi == IF a <= b THEN b ELSE a
    IN SubSeq(s, lo + 1, hi)

occursAt(s, t, p) ==
    /\ p >= 0
    /\ p + Len(t) <= Len(s)
    /\ \A k \in 1..Len(t) : s[p + k] = t[k]

\* String.prototype.indexOf(t, from): least position >= from where t occurs.
indexOf(s, t, from) ==
    LET hits == {p \in (IF from < 0 THEN 0 ELSE from)..(Len(s) - Len(t)) : occursAt(s, t, p)}
    IN IF hits = {} THEN -1 ELSE Min(hits)

\* String.prototype.lastIndexOf(t, from): greatest position <= from where t occurs.
lastIndexOf(s, t, from) ==
    LET hits == {p \in 0..(IF from < Len(s) - Len(t) THEN from ELSE Len(s) - Len(t)) :
                    occursAt(s, t, p)}
    IN IF hits = {} THEN -1 ELSE Max(hits)

(***************************************************************************)
(* searchHighlight.ts                                                      *)
(***************************************************************************)
contextCharsDefault == 100

RegexSpecial == {".", "*", "+", "?", "^", "$", "{", "}", "(", ")", "|", "[", "]", "\\"}

\* Mutant of escapeRegex: the phrase reaches the RegExp unescaped.
escapeRegexNone(str) == str

escapeUnit(c) == IF c \in RegexSpecial THEN <<"\\", c>> ELSE <<c>>

\* str.replace(/[.*+?^${}()|[\]\\]/g, '\\$&')
RECURSIVE escapeRegex(_)
escapeRegex(str) ==
    IF str = <<>> THEN <<>> ELSE escapeUnit(Head(str)) \o escapeRegex(Tail(str))

\* new RegExp(source, 'gi') over the pattern syntax the code units above can
\* form: "\" followed by a unit is that unit taken literally, an unescaped "."
\* is any unit, every other unit is itself.
RECURSIVE RegExpAtoms(_)
RegExpAtoms(source) ==
    IF source = <<>> THEN <<>>
    ELSE IF Head(source) = "\\" /\ Len(source) >= 2
         THEN <<[kind |-> "lit", ch |-> source[2]]>> \o RegExpAtoms(SubSeq(source, 3, Len(source)))
    ELSE IF Head(source) = "."
         THEN <<[kind |-> "any", ch |-> "."]>> \o RegExpAtoms(Tail(source))
    ELSE <<[kind |-> "lit", ch |-> Head(source)]>> \o RegExpAtoms(Tail(source))

\* Canonicalize of an ignoreCase, non-unicode RegExp: the unit's upper case
\* when that is a single unit.
Canonicalize(c) == IF c = "i" THEN "I" ELSE c

atomMatches(atom, c) ==
    \/ atom.kind = "any"
    \/ atom.kind = "lit" /\ Canonicalize(atom.ch) = Canonicalize(c)

\* regex.exec(text) with regex.lastIndex = lastIndex: the leftmost match at or
\* after lastIndex, Null when there is none.
regexExec(atoms, text, lastIndex) ==
    LET hits == {p \in lastIndex..(Len(text) - Len(atoms)) :
                    \A k \in 1..Len(atoms) : atomMatches(atoms[k], text[p + k])}
    IN IF hits = {} THEN Null
       ELSE LET index == Min(hits)
            IN [index |-> index, text |-> SubSeq(text, index + 1, index + Len(atoms))]

Ellipsis == <<".", ".", ".">>

\* Mutant of excerptWindow: the start is set to the space itself, not to the
\* position after it.
excerptWindowOnSpace(cont, q, contextChars) ==
    LET lowerContent == toLowerCase(cont)
        lowerQuery == trim(toLowerCase(q))
        matchIndex == indexOf(lowerContent, lowerQuery, 0)
        matchEnd == matchIndex + Len(lowerQuery)
        start0 == IF matchIndex - contextChars > 0 THEN matchIndex - contextChars ELSE 0
        end0 == IF Len(cont) < matchEnd + contextChars THEN Len(cont) ELSE matchEnd + contextChars
        nextSpace == indexOf(cont, <<" ">>, start0)
        prevSpace == lastIndexOf(cont, <<" ">>, end0)
    IN [matchIndex |-> matchIndex,
        matchEnd |-> matchEnd,
        matchLength |-> Len(lowerQuery),
        windowStart |-> start0,
        windowEnd |-> end0,
        excerptStart |-> IF start0 > 0 /\ nextSpace # -1 /\ nextSpace < matchIndex
                         THEN nextSpace ELSE start0,
        excerptEnd |-> IF end0 < Len(cont) /\ prevSpace # -1 /\ prevSpace > matchEnd
                       THEN prevSpace ELSE end0]

\* The locals of extractExcerpt once the boundaries are adjusted (lines 42-70).
excerptWindow(cont, q, contextChars) ==
    LET lowerContent == toLowerCase(cont)
        lowerQuery == trim(toLowerCase(q))
        matchIndex == indexOf(lowerContent, lowerQuery, 0)
        matchEnd == matchIndex + Len(lowerQuery)
        start0 == IF matchIndex - contextChars > 0 THEN matchIndex - contextChars ELSE 0
        end0 == IF Len(cont) < matchEnd + contextChars THEN Len(cont) ELSE matchEnd + contextChars
        nextSpace == indexOf(cont, <<" ">>, start0)
        prevSpace == lastIndexOf(cont, <<" ">>, end0)
    IN [matchIndex |-> matchIndex,
        matchEnd |-> matchEnd,
        matchLength |-> Len(lowerQuery),
        windowStart |-> start0,
        windowEnd |-> end0,
        excerptStart |-> IF start0 > 0 /\ nextSpace # -1 /\ nextSpace < matchIndex
                         THEN nextSpace + 1 ELSE start0,
        excerptEnd |-> IF end0 < Len(cont) /\ prevSpace # -1 /\ prevSpace > matchEnd
                       THEN prevSpace ELSE end0]

\* Mutant of excerptOf: the trailing marker is appended whatever excerptEnd is.
excerptOfAlwaysTail(cont, w) ==
    (IF w.excerptStart > 0 THEN <<".", ".", ".">> ELSE <<>>)
    \o substring(cont, w.excerptStart, w.excerptEnd)
    \o <<".", ".", ".">>

\* Lines 72-81: the excerpt text with its ellipsis markers.
excerptOf(cont, w) ==
    (IF w.excerptStart > 0 THEN Ellipsis ELSE <<>>)
    \o substring(cont, w.excerptStart, w.excerptEnd)
    \o (IF w.excerptEnd < Len(cont) THEN Ellipsis ELSE <<>>)

\* extractExcerpt; `loc` is not part of the returned object: it keeps the
\* function's locals at its return, for the properties below.
extractExcerpt(cont, q, contextChars) ==
    IF q = <<>> \/ trim(q) = <<>> THEN Null
    ELSE LET w == excerptWindow(cont, q, contextChars)
         IN IF w.matchIndex = -1 THEN Null
            ELSE [excerpt |-> excerptOf(cont, w),
                  matchStart |-> IF w.excerptStart > 0
                                 THEN w.matchIndex - w.excerptStart + 3
                                 ELSE w.matchIndex - w.excerptStart,
                  matchLength |-> w.matchLength,
                  loc |-> w]

\* Mutant of gapSegments: the push is not guarded by match.index > lastIndex.
gapSegmentsUnguarded(text, lastIndex, index, segs) ==
    Append(segs, [text |-> substring(text, lastIndex, index), isMatch |-> FALSE])

\* Mutant of restSegments: the text after the last match is not pushed.
restSegmentsDropped(text, lastIndex, segs) == segs

\* Lines 121-126: the non-matching text before a match, when there is any.
gapSegments(text, lastIndex, index, segs) ==
    IF index > lastIndex
    THEN Append(segs, [text |-> substring(text, lastIndex, index), isMatch |-> FALSE])
    ELSE segs

\* Lines 129-132: the matching text, as it is written in the text.
matchSegment(match) == [text |-> match.text, isMatch |-> TRUE]

\* Lines 138-143: the non-matching text after the last match.
restSegments(text, lastIndex, segs) ==
    IF lastIndex < Len(text)
    THEN Append(segs, [text |-> substring(text, lastIndex, Len(text)), isMatch |-> FALSE])
    ELSE segs

\* The while loop of highlightMatches (lines 116-135) and the push after it.
RECURSIVE highlightLoop(_, _, _, _)
highlightLoop(text, atoms, lastIndex, segs) ==
    LET match == regexExec(atoms, text, lastIndex)
    IN IF match = Null
       THEN restSegments(text, lastIndex, segs)
       ELSE highlightLoop(text, atoms, match.index + Len(match.text),
                Append(gapSegments(text, lastIndex, match.index, segs),
                       matchSegment(match)))

highlightMatches(text, q) ==
    IF q = <<>> \/ trim(q) = <<>> THEN <<[text |-> text, isMatch |-> FALSE]>>
    ELSE highlightLoop(text, RegExpAtoms(escapeRegex(trim(q))), 0, <<>>)

(***************************************************************************)
(* The client: App.tsx, sse.ts, SearchPage.tsx, DocumentPage.tsx.          *)
(* A handler runs to completion: the state updates it makes, the render    *)
(* they cause and the effects of that render are one step.  A response     *)
(* that arrives for a pane instance that is no longer mounted changes      *)
(* nothing, so the requests of an instance leave `inflight` when it        *)
(* unmounts.                                                               *)
(***************************************************************************)
MaxDocs == 2       \* documents the server may hold
MaxInflight == 2   \* requests in flight when a handler may still send one
MaxReloads == 2    \* 'file-changed' events dispatched

NoDoc == "null"
DocNames == <<"d1", "d2", "d3", "d4">>
DocIds == {DocNames[k] : k \in 1..MaxDocs}

\* What GET /api/documents may answer, and what GET /api/search may.
ServerDocLists == {[k \in 1..n |-> DocNames[k]] : n \in 0..MaxDocs}
ServerHitLists ==
    {<<>>,
     <<[document |-> "d2", score |-> 2, match_type |-> "content"],
       [document |-> "d1", score |-> 1, match_type |-> "both"]>>}

\* What the user may have in the search box.
UiQueries == {<<>>, <<" ">>, <<"I">>}

\* window.location.hash, by format and document id.
HashEmpty == [fmt |-> "", id |-> NoDoc]
HashSearch == [fmt |-> "#/search", id |-> NoDoc]
HashSearchDoc(id) == [fmt |-> "#/search?doc=", id |-> id]
HashDoc(id) == [fmt |-> "#/doc/", id |-> id]

\* An id no live document of the server has: get_document fails with NotFound.
GoneId == "gone"
\* The ids a link or bookmark may carry.
NavIds == DocIds \cup {GoneId}

\* The hashes a navigation may set.
NavigableHashes ==
    {HashSearch} \cup {HashSearchDoc(id) : id \in NavIds} \cup {HashDoc(id) : id \in NavIds}

DocsRequest == [kind |-> "docs", q |-> <<>>, id |-> NoDoc]
SearchRequest(q) == [kind |-> "search", q |-> q, id |-> NoDoc]
DocRequest(id) == [kind |-> "doc", q |-> <<>>, id |-> id]

\* The requests in flight are a bag: responses arrive in any order.
One(r) == SetToBag({r})
OfKinds(bag, kinds) == [r \in {x \in BagToSet(bag) : x.kind \in kinds} |-> bag[r]]

\* docs.map(doc => ({ document: doc, score: 0, match_type: 'both' }))
zeroScore(docs) ==
    [k \in 1..Len(docs) |-> [document |-> docs[k], score |-> 0, match_type |-> "both"]]

\* Mutant of searchEffect: the empty-query branch leaves hasSearched as it is.
searchEffectKeepsFlag(q, allDocs, results, hasSearched) ==
    IF trim(q) = <<>>
    THEN [results |-> zeroScore(allDocs), hasSearched |-> hasSearched, timer |-> Null]
    ELSE [results |-> results, hasSearched |-> hasSearched, timer |-> [q |-> q]]

\* Mutant of searchEffect: the timer callback searches for the trimmed query.
searchEffectTrimsQuery(q, allDocs, results, hasSearched) ==
    IF trim(q) = <<>>
    THEN [results |-> zeroScore(allDocs), hasSearched |-> FALSE, timer |-> Null]
    ELSE [results |-> results, hasSearched |-> hasSearched, timer |-> [q |-> trim(q)]]

\* SearchPage's search effect (lines 155-177), after the cleanup of its
\* previous run has cleared the pending timer.
searchEffect(q, allDocs, results, hasSearched) ==
    IF trim(q) = <<>>
    THEN [results |-> zeroScore(allDocs), hasSearched |-> FALSE, timer |-> Null]
    ELSE [results |-> results, hasSearched |-> hasSearched, timer |-> [q |-> q]]

\* SearchPage re-rendered with the current query and state: the search effect
\* runs again (its dependencies [query, allDocuments] changed).
RunSearchEffect(q, allDocs, results, hasSearched) ==
    LET eff == searchEffect(q, allDocs, results, hasSearched)
    IN /\ spResults' = eff.results
       /\ spHasSearched' = eff.hasSearched
       /\ spTimer' = eff.timer
       /\ spAllDocuments' = allDocs

\* What DocumentPage renders (lines 489-524).
documentView(p) ==
    IF p.loading THEN "loading"
    ELSE IF p.error \/ p.document = NoDoc THEN "error"
    ELSE "document"

\* Mutant of docPane: the effect does not call setLoading(true).
docPaneKeepsLoading(old, sel, remount, key) ==
    IF sel = NoDoc THEN Null
    ELSE IF old = Null \/ remount
         THEN [documentId |-> sel, document |-> NoDoc, loading |-> TRUE,
               error |-> FALSE, mountKey |-> key]
    ELSE IF old.documentId # sel
         THEN [old EXCEPT !.documentId = sel, !.error = FALSE]
    ELSE old

\* DocumentPage as rendered for a selectedDocId: unmounted when there is none,
\* mounted afresh (document null, loading true, error null) when there was no
\* instance or <Main> was remounted, its effect run again when documentId
\* changed (lines 469-487).
docPane(old, sel, remount, key) ==
    IF sel = NoDoc THEN Null
    ELSE IF old = Null \/ remount
         THEN [documentId |-> sel, document |-> NoDoc, loading |-> TRUE,
               error |-> FALSE, mountKey |-> key]
    ELSE IF old.documentId # sel
         THEN [old EXCEPT !.documentId = sel, !.loading = TRUE, !.error = FALSE]
    ELSE old

\* The getDocument request the render above sends, if any.
docPaneRequests(old, sel, remount) ==
    IF sel # NoDoc /\ (old = Null \/ remount \/ old.documentId # sel)
    THEN One(DocRequest(sel)) ELSE EmptyBag

\* The requests that stay in flight over that render: those of an unmounted
\* DocumentPage are dropped.
docPaneKeeps(old, sel, remount) ==
    IF sel = NoDoc \/ old = Null \/ remount THEN {"docs", "search"} ELSE {"docs", "search", "doc"}

\* App's route effect (lines 178-200) for a new value of the hash state.
routeEffect(h, loc) ==
    IF h.fmt = "#/doc/"
    THEN [selectedDocId |-> h.id, locationHash |-> HashSearchDoc(h.id)]
    ELSE [selectedDocId |-> h.id, locationHash |-> loc]

\* Mutant of sseListener: the keep-alive listener triggers the reload too.
sseListenerPingReloads(type) ==
    IF type \in {"file-changed", "ping"} THEN "onReload" ELSE "none"

\* The listeners setupSSE registers on the EventSource (lines 15-27).
sseListener(type) ==
    IF type = "file-changed" THEN "onReload" ELSE "none"

\* Mutant of onReload: the updater does not count every call.
onReloadSaturating(prev) == IF prev = 0 THEN 1 ELSE prev

\* App's reload callback: setReloadKey(prev => prev + 1)  (lines 160-163).
onReload(prev) == prev + 1

UiInit ==
    /\ searchQuery = <<>>
    /\ reloadKey = 0
    /\ selectedDocId = NoDoc
    /\ hash = HashEmpty
    /\ locationHash = HashEmpty
    /\ hashChangePending = FALSE
    /\ sse \in {"open", "none"}
    /\ fileChangedSeen = 0
    /\ spResults = <<>>
    /\ spAllDocuments = <<>>
    /\ spHasSearched = FALSE
    /\ spTimer = Null
    /\ spMountKey = 0
    /\ docsFetches = 1
    /\ dp = Null
    /\ inflight = One(DocsRequest)

\* <SearchInput onChange>: setSearchQuery(e.target.value)  (App.tsx line 232).
TypeQuery(q) ==
    /\ q # searchQuery
    /\ searchQuery' = q
    /\ RunSearchEffect(q, spAllDocuments, spResults, spHasSearched)
    /\ UNCHANGED <<reloadKey, selectedDocId, hash, locationHash, hashChangePending,
                   sseVars, spMountKey, docsFetches, dp, inflight, offUiVars>>

\* The 300 ms timer of the search effect fires: searchDocuments(query).
TimerFire ==
    /\ spTimer # Null
    /\ BagCardinality(inflight) < MaxInflight
    /\ inflight' = inflight (+) One(SearchRequest(spTimer.q))
    /\ spTimer' = Null
    /\ UNCHANGED <<appVars, sseVars, spResults, spAllDocuments, spHasSearched,
                   spMountKey, docsFetches, dp, offUiVars>>

\* getAllDocuments() resolves (lines 145-148); the render it causes runs the
\* search effect again, allDocuments being one of its dependencies.
DocsResponse(r, docs) ==
    /\ r.kind = "docs"
    /\ inflight' = inflight (-) One(r)
    /\ RunSearchEffect(searchQuery, docs, zeroScore(docs), spHasSearched)
    /\ UNCHANGED <<appVars, sseVars, spMountKey, docsFetches, dp, offUiVars>>

\* searchDocuments(query) resolves (lines 165-168).
SearchResponse(r, hits) ==
    /\ r.kind = "search"
    /\ inflight' = inflight (-) One(r)
    /\ spResults' = hits
    /\ spHasSearched' = TRUE
    /\ UNCHANGED <<appVars, sseVars, spAllDocuments, spTimer, spMountKey,
                   docsFetches, dp, offUiVars>>

\* getAllDocuments() or searchDocuments() rejects: console.error only.
ListFailure(r) ==
    /\ r.kind \in {"docs", "search"}
    /\ inflight' = inflight (-) One(r)
    /\ UNCHANGED <<appVars, sseVars, spVars, dp, offUiVars>>

\* getDocument(documentId) resolves (lines 479-482).
DocResponse(r) ==
    /\ r.kind = "doc"
    /\ r.id # GoneId
    /\ inflight' = inflight (-) One(r)
    /\ dp' = [dp EXCEPT !.document = r.id, !.loading = FALSE]
    /\ UNCHANGED <<appVars, sseVars, spVars, offUiVars>>

\* getDocument(documentId) rejects (lines 483-486).
DocFailure(r) ==
    /\ r.kind = "doc"
    /\ inflight' = inflight (-) One(r)
    /\ dp' = [dp EXCEPT !.error = TRUE, !.loading = FALSE]
    /\ UNCHANGED <<appVars, sseVars, spVars, offUiVars>>

\* window.location.hash = h: a hashchange event is queued when the hash changes.
AssignHash(h) ==
    /\ locationHash' = h
    /\ hashChangePending' = (hashChangePending \/ h # locationHash)

\* A result card is clicked: goToDocument(id)  (lines 202-205).
GoToDocument(id) ==
    /\ \E k \in 1..Len(spResults) : spResults[k].document = id
    /\ BagCardinality(inflight) < MaxInflight
    /\ selectedDocId' = id
    /\ AssignHash(HashSearchDoc(id))
    /\ dp' = docPane(dp, id, FALSE, reloadKey)
    /\ inflight' = OfKinds(inflight, docPaneKeeps(dp, id, FALSE))
                   (+) docPaneRequests(dp, id, FALSE)
    /\ UNCHANGED <<searchQuery, reloadKey, hash, sseVars, spVars, offUiVars>>

\* The title is clicked: goToSearch, that is closeDocument  (lines 207-214).
GoToSearch ==
    /\ selectedDocId' = NoDoc
    /\ AssignHash(HashSearch)
    /\ dp' = docPane(dp, NoDoc, FALSE, reloadKey)
    /\ inflight' = OfKinds(inflight, docPaneKeeps(dp, NoDoc, FALSE))
    /\ UNCHANGED <<searchQuery, reloadKey, hash, sseVars, spVars, offUiVars>>

\* The hashchange listener: setHash(window.location.hash)  (lines 140-144),
\* then the route effect when the hash state changed.
HashChange ==
    /\ hashChangePending
    /\ hashChangePending' = FALSE
    /\ hash' = locationHash
    /\ LET route == IF hash' # hash THEN routeEffect(hash', locationHash)
                    ELSE [selectedDocId |-> selectedDocId, locationHash |-> locationHash]
       IN /\ selectedDocId' = route.selectedDocId
          /\ locationHash' = route.locationHash
          /\ dp' = docPane(dp, route.selectedDocId, FALSE, reloadKey)
          /\ inflight' = OfKinds(inflight, docPaneKeeps(dp, route.selectedDocId, FALSE))
                         (+) docPaneRequests(dp, route.selectedDocId, FALSE)
          /\ BagCardinality(inflight') <= MaxInflight
    /\ UNCHANGED <<searchQuery, reloadKey, sseVars, spVars, offUiVars>>

\* The browser is navigated to another hash (a link, a bookmark, the address
\* bar, the back button): window.location.hash changes and a hashchange event
\* is queued for handleHashChange (lines 140-144).
Navigate(h) ==
    /\ h # locationHash
    /\ AssignHash(h)
    /\ UNCHANGED <<searchQuery, reloadKey, selectedDocId, hash, sseVars, spVars, dp,
                   inflight, offUiVars>>

\* <Main key={reloadKey}> gets a new key: SplitLayout, SearchPage and
\* DocumentPage unmount (their effect cleanups run) and mount again with fresh
\* state; the mount effects fetch again.
Remount(key) ==
    /\ spMountKey' = key
    /\ docsFetches' = docsFetches + 1
    /\ RunSearchEffect(searchQuery, <<>>, <<>>, FALSE)
    /\ dp' = docPane(dp, selectedDocId, TRUE, key)
    /\ inflight' = One(DocsRequest) (+) docPaneRequests(dp, selectedDocId, TRUE)

\* What an event of the EventSource does, by the listener registered for it.
Dispatch(type) ==
    IF sseListener(type) = "onReload"
    THEN /\ reloadKey' = onReload(reloadKey)
         /\ Remount(reloadKey')
    ELSE UNCHANGED <<reloadKey, spVars, dp, inflight>>

SseFileChanged ==
    /\ sse = "open"
    /\ fileChangedSeen < MaxReloads
    /\ fileChangedSeen' = fileChangedSeen + 1
    /\ Dispatch("file-changed")
    /\ UNCHANGED <<searchQuery, selectedDocId, hash, locationHash, hashChangePending,
                   sse, offUiVars>>

SsePing ==
    /\ sse = "open"
    /\ Dispatch("ping")
    /\ UNCHANGED <<searchQuery, selectedDocId, hash, locationHash, hashChangePending,
                   sseVars, offUiVars>>

\* eventSource.onerror: the error is logged; the EventSource reconnects by
\* itself or, after a fatal error, stays closed.
SseError ==
    /\ sse = "open"
    /\ sse' \in {"open", "closed"}
    /\ Dispatch("error")
    /\ UNCHANGED <<searchQuery, selectedDocId, hash, locationHash, hashChangePending,
                   fileChangedSeen, offUiVars>>

UiNext ==
    \/ \E q \in UiQueries : TypeQuery(q)
    \/ TimerFire
    \/ \E r \in BagToSet(inflight), docs \in ServerDocLists : DocsResponse(r, docs)
    \/ \E r \in BagToSet(inflight), hits \in ServerHitLists : SearchResponse(r, hits)
    \/ \E r \in BagToSet(inflight) : ListFailure(r)
    \/ \E r \in BagToSet(inflight) : DocResponse(r)
    \/ \E r \in BagToSet(inflight) : DocFailure(r)
    \/ \E id \in DocIds : GoToDocument(id)
    \/ GoToSearch
    \/ HashChange
    \/ SseFileChanged
    \/ SsePing
    \/ SseError

\* What a user may type in a burst of keystrokes.
BurstQueries == {<<>>, <<" ">>, <<"I">>, <<"I", " ">>}

\* The search pane alone: typing, the debounce timer, the responses, reloads.
TypingNext ==
    \/ \E q \in BurstQueries : TypeQuery(q)
    \/ TimerFire
    \/ \E r \in BagToSet(inflight), docs \in ServerDocLists : DocsResponse(r, docs)
    \/ \E r \in BagToSet(inflight), hits \in ServerHitLists : SearchResponse(r, hits)
    \/ \E r \in BagToSet(inflight) : ListFailure(r)
    \/ SseFileChanged

\* What GET /api/search answers for a query while the index does not change:
\* the SearchResponse { query, results } of client.ts lines 31-34, the results
\* of two different phrases being different lists.
searchResponseTo(q) ==
    [query |-> q,
     results |-> IF q = <<"I">>
                 THEN <<[document |-> "d2", score |-> 2, match_type |-> "content"],
                        [document |-> "d1", score |-> 1, match_type |-> "both"]>>
                 ELSE IF trim(q) = <<"I">>
                 THEN <<[document |-> "d2", score |-> 2, match_type |-> "content"]>>
                 ELSE <<>>]

\* The search pane of a user who keeps typing while searches are in flight,
\* the server answering each of them from the same index.
LatestQueryNext ==
    \/ \E q \in BurstQueries : TypeQuery(q)
    \/ TimerFire
    \/ \E r \in BagToSet(inflight), docs \in ServerDocLists : DocsResponse(r, docs)
    \/ \E r \in BagToSet(inflight) : SearchResponse(r, searchResponseTo(r.q).results)

MaxBackClicks == 2   \* activations of the back control

\* The props App passes to <DocumentPage> (App.tsx lines 249-252).
documentPageProps(sel) == [documentId |-> sel, onClose |-> "closeDocument"]

\* A prop a component destructures: undefined when the parent did not pass it.
propOf(props, name) == IF name \in DOMAIN props THEN props[name] ELSE "undefined"

\* <BackButton onClick={onBack}> (DocumentPage.tsx lines 469, 500, 512).
backButtonOnClick(props) == propOf(props, "onBack")

\* The '<- Back to search' control of the document pane is activated.  It is
\* rendered in the error view and in the document view, not while loading.
ClickBack ==
    /\ dp # Null
    /\ documentView(dp) # "loading"
    /\ backClicks < MaxBackClicks
    /\ backClicks' = backClicks + 1
    /\ IF backButtonOnClick(documentPageProps(selectedDocId)) = "closeDocument"
       THEN /\ selectedDocId' = NoDoc
            /\ AssignHash(HashSearch)
            /\ dp' = docPane(dp, NoDoc, FALSE, reloadKey)
            /\ inflight' = OfKinds(inflight, docPaneKeeps(dp, NoDoc, FALSE))
       ELSE UNCHANGED <<selectedDocId, locationHash, hashChangePending, dp, inflight>>
    /\ UNCHANGED <<searchQuery, reloadKey, hash, sseVars, spVars,
                   hlVars, rtVars, scVars, svVars, rkVars, esVars, pvVars>>

\* The client with a user who opens documents and closes them from the pane.
CloseNext ==
    \/ \E id \in DocIds : GoToDocument(id)
    \/ ClickBack
    \/ HashChange
    \/ \E r \in BagToSet(inflight), docs \in ServerDocLists : DocsResponse(r, docs)
    \/ \E r \in BagToSet(inflight) : DocResponse(r)
    \/ \E r \in BagToSet(inflight) : DocFailure(r)

\* The client with a user who follows links instead of typing queries.
NavNext ==
    \/ \E h \in NavigableHashes : Navigate(h)
    \/ HashChange
    \/ \E id \in DocIds : GoToDocument(id)
    \/ GoToSearch
    \/ \E r \in BagToSet(inflight), docs \in ServerDocLists : DocsResponse(r, docs)
    \/ \E r \in BagToSet(inflight) : DocResponse(r)
    \/ \E r \in BagToSet(inflight) : DocFailure(r)
    \/ SseFileChanged

\* No document id is on its way.
RtIdle ==
    /\ rtId = <<>>
    /\ rtPc = "idle"
    /\ rtHash = <<>>
    /\ rtSelected = Null
    /\ rtRequest = <<>>

\* The pane is never scrolled nor remounted.
ScIdle ==
    /\ scTop = 0
    /\ scEvent = FALSE
    /\ scStore = -1
    /\ scTimer = FALSE
    /\ scTimeoutId = FALSE
    /\ scRaf = -1
    /\ scAtUnmount = -1
    /\ scRestored = -1
    /\ scRemounts = 0

MaxLines == 2     \* a file holds blocks at lines 1..MaxLines
MaxChanges == 2   \* change events of the file watcher

FileNames == <<"a.rs", "b.rs">>
Files == {FileNames[k] : k \in 1..Len(FileNames)}
\* A file without blocks, as before the first change or after its deletion.
NoContent == [rev |-> 0, lines |-> {}]
\* The ids a query visits, in Index order: by file, then by line.
Slots == [k \in 1..(Len(FileNames) * MaxLines) |->
            <<FileNames[((k - 1) \div MaxLines) + 1], ((k - 1) % MaxLines) + 1>>]

\* The core holds no document, no file changes, no query runs.
SvIdle ==
    /\ svFs = [f \in Files |-> NoContent]
    /\ svIndex = {}
    /\ svState = [f \in Files |-> "Unchanged"]
    /\ svRead = [f \in Files |-> NoContent]
    /\ svDirty = [f \in Files |-> FALSE]
    /\ svLast = [f \in Files |-> "none"]
    /\ svChanges = 0
    /\ qPc = "idle"
    /\ qSnap = {}
    /\ qSeen = {}
    /\ qTodo = <<>>
    /\ qVersions = {}

\* Nothing of the groups added last has happened.
XIdle ==
    /\ backClicks = 0
    /\ esMounted = FALSE
    /\ esMounts = 0
    /\ esSources = <<>>
    /\ esCleanup = 0
    /\ esThrew = FALSE
    /\ esQueue = <<>>
    /\ esReloadKey = 0
    /\ pvContent = <<>>
    /\ pvQuery = <<>>
    /\ pvHasSearched = FALSE
    /\ pvMatchType = "both"
    /\ pvPc = "input"
    /\ pvShown = Null

\* The Search Engine has not searched.
RkIdle ==
    /\ rkIndex = <<>>
    /\ rkResults = <<>>
    /\ rkPrev = <<>>
    /\ rkPc = "idle"

\* The highlight utilities are not running.
HlIdle ==
    /\ content = <<>>
    /\ query = <<>>
    /\ hlPc = "idle"
    /\ excerptRes = Null
    /\ hlText = <<>>
    /\ segments = <<>>

\* The client is not running.
UiIdle ==
    /\ UiInit
    /\ sse = "none"

\* The client after its first render, the utilities idle.
InitUI == UiInit /\ HlIdle /\ RtIdle /\ ScIdle /\ SvIdle /\ RkIdle /\ XIdle

SpecUI == InitUI /\ [][UiNext]_vars

SpecNav == InitUI /\ [][NavNext]_vars

SpecTyping == InitUI /\ [][TypingNext]_vars

SpecLatestQuery == InitUI /\ [][LatestQueryNext]_vars

SpecClose == InitUI /\ [][CloseNext]_vars

(***************************************************************************)
(* The two utilities applied to enumerated inputs.                         *)
(***************************************************************************)
HlInit ==
    /\ content \in Contents
    /\ query \in Queries
    /\ hlPc = "input"
    /\ excerptRes = Null
    /\ hlText = <<>>
    /\ segments = <<>>

\* SearchPage's preview: extractExcerpt(content, query), then
\* highlightMatches(excerpt.excerpt, query) when an excerpt came back.
Preview ==
    /\ hlPc = "input"
    /\ hlPc' = "preview"
    /\ excerptRes' = extractExcerpt(content, query, contextCharsDefault)
    /\ hlText' = IF excerptRes' = Null THEN <<>> ELSE excerptRes'.excerpt
    /\ segments' = IF excerptRes' = Null THEN <<>>
                   ELSE highlightMatches(excerptRes'.excerpt, query)
    /\ UNCHANGED <<content, query, offHlVars>>

\* highlightMatches(text, query) on a text of its own.
Highlight ==
    /\ hlPc = "input"
    /\ hlPc' = "highlight"
    /\ hlText' = content
    /\ segments' = highlightMatches(content, query)
    /\ UNCHANGED <<content, query, excerptRes, offHlVars>>

HlNext == Preview \/ Highlight

\* The utilities on their inputs, the client idle.
InitHL == HlInit /\ UiIdle /\ RtIdle /\ ScIdle /\ SvIdle /\ RkIdle /\ XIdle

SpecHL == InitHL /\ [][HlNext]_vars

(***************************************************************************)
(* A document id from goToDocument through window.location.hash and the    *)
(* route effect to the URL getDocument fetches (App.tsx, client.ts).       *)
(***************************************************************************)
MaxIdLen == 3   \* a document id: at most this many code units

\* The code units an id may hold: a letter, a digit, the percent sign, the
\* characters with a meaning in a query string or a URL, and one non-ASCII
\* letter ("eacute" is U+00E9).
IdUnits == {"a", "2", "%", "+", " ", "&", "=", "?", "#", "/", "eacute"}
Ids == SeqsUpTo(IdUnits, MaxIdLen) \ {<<>>}

\* The concatenation of a sequence of strings.
RECURSIVE joinAll(_)
joinAll(parts) == IF parts = <<>> THEN <<>> ELSE Head(parts) \o joinAll(Tail(parts))

HexUpper == <<"0", "1", "2", "3", "4", "5", "6", "7", "8", "9", "A", "B", "C", "D", "E", "F">>
HexLower == <<"0", "1", "2", "3", "4", "5", "6", "7", "8", "9", "a", "b", "c", "d", "e", "f">>
isHex(c) == \E n \in 1..16 : HexUpper[n] = c \/ HexLower[n] = c
hexValue(c) == (CHOOSE n \in 1..16 : HexUpper[n] = c \/ HexLower[n] = c) - 1

\* Code points of the code units used here.
CharCode ==
    (" " :> 32) @@ ("#" :> 35) @@ ("%" :> 37) @@ ("&" :> 38) @@ ("+" :> 43) @@
    ("/" :> 47) @@ ("=" :> 61) @@ ("?" :> 63) @@ ("eacute" :> 233) @@
    [n \in {HexUpper[k] : k \in 1..10} |-> 47 + (CHOOSE k \in 1..10 : HexUpper[k] = n)] @@
    ("A" :> 65) @@ ("B" :> 66) @@ ("C" :> 67) @@ ("D" :> 68) @@ ("E" :> 69) @@ ("F" :> 70) @@
    ("a" :> 97) @@ ("b" :> 98) @@ ("c" :> 99) @@ ("d" :> 100) @@ ("e" :> 101) @@
    ("f" :> 102) @@ ("h" :> 104) @@ ("o" :> 111) @@ ("r" :> 114) @@ ("s" :> 115)

\* The code unit of a code point; "other" is any unit outside the table and
\* "repl" is U+FFFD.
unitOfCode(n) ==
    IF \E c \in DOMAIN CharCode : CharCode[c] = n
    THEN CHOOSE c \in DOMAIN CharCode : CharCode[c] = n
    ELSE "other"

\* UTF-8 of one code unit (code points below U+0800).
utf8(c) ==
    LET n == CharCode[c]
    IN IF n < 128 THEN <<n>> ELSE <<192 + (n \div 64), 128 + (n % 64)>>

percentByte(b) == <<"%", HexUpper[(b \div 16) + 1], HexUpper[(b % 16) + 1]>>

\* A-Z a-z 0-9 - _ . ! ~ * ' ( )
isUnreserved(c) ==
    LET n == CharCode[c]
    IN (48 <= n /\ n <= 57) \/ (65 <= n /\ n <= 90) \/ (97 <= n /\ n <= 122)

\* Mutant of encodeUnit: the percent sign is left as it is.
encodeUnitKeepsPercent(c) ==
    IF isUnreserved(c) \/ c = "%" THEN <<c>>
    ELSE joinAll([k \in 1..Len(utf8(c)) |-> percentByte(utf8(c)[k])])

encodeUnit(c) ==
    IF isUnreserved(c) THEN <<c>>
    ELSE joinAll([k \in 1..Len(utf8(c)) |-> percentByte(utf8(c)[k])])

\* encodeURIComponent(s)
encodeURIComponent(s) == joinAll([k \in 1..Len(s) |-> encodeUnit(s[k])])

\* Percent-decoding to bytes: '%' with two hex digits is one byte, everything
\* else stands for its UTF-8 bytes.
RECURSIVE percentDecode(_)
percentDecode(s) ==
    IF s = <<>> THEN <<>>
    ELSE IF s[1] = "%" /\ Len(s) >= 3 /\ isHex(s[2]) /\ isHex(s[3])
         THEN <<16 * hexValue(s[2]) + hexValue(s[3])>> \o percentDecode(SubSeq(s, 4, Len(s)))
    ELSE utf8(s[1]) \o percentDecode(Tail(s))

\* UTF-8 decoding, a malformed byte giving U+FFFD.
RECURSIVE utf8Decode(_)
utf8Decode(bytes) ==
    IF bytes = <<>> THEN <<>>
    ELSE IF bytes[1] < 128
         THEN <<unitOfCode(bytes[1])>> \o utf8Decode(Tail(bytes))
    ELSE IF /\ 194 <= bytes[1] /\ bytes[1] <= 223 /\ Len(bytes) >= 2
            /\ 128 <= bytes[2] /\ bytes[2] <= 191
         THEN <<unitOfCode((bytes[1] - 192) * 64 + (bytes[2] - 128))>>
              \o utf8Decode(SubSeq(bytes, 3, Len(bytes)))
    ELSE <<"repl">> \o utf8Decode(Tail(bytes))

\* Every '%' of s starts an escape of two hex digits.
RECURSIVE wellEscaped(_)
wellEscaped(s) ==
    IF s = <<>> THEN TRUE
    ELSE IF s[1] = "%"
         THEN Len(s) >= 3 /\ isHex(s[2]) /\ isHex(s[3]) /\ wellEscaped(SubSeq(s, 4, Len(s)))
    ELSE wellEscaped(Tail(s))

\* decodeURIComponent(s): a URIError for a malformed escape or malformed UTF-8.
decodeURIComponent(s) ==
    LET value == utf8Decode(percentDecode(s))
    IN IF wellEscaped(s) /\ \A k \in 1..Len(value) : value[k] # "repl"
       THEN [threw |-> FALSE, value |-> value]
       ELSE [threw |-> TRUE, value |-> <<>>]

\* String.prototype.split on a one-unit separator.
RECURSIVE split(_, _)
split(s, sep) ==
    LET at == indexOf(s, <<sep>>, 0)
    IN IF at = -1 THEN <<s>>
       ELSE <<SubSeq(s, 1, at)>> \o split(SubSeq(s, at + 2, Len(s)), sep)

plusToSpace(s) == [k \in 1..Len(s) |-> IF s[k] = "+" THEN " " ELSE s[k]]

\* Mutant of formDecode: '+' is kept.
formDecodeKeepsPlus(s) == utf8Decode(percentDecode(s))

\* A name or a value of application/x-www-form-urlencoded.
formDecode(s) == utf8Decode(percentDecode(plusToSpace(s)))

\* new URLSearchParams(queryString): the list of <<name, value>> pairs.
URLSearchParams(queryString) ==
    LET init == IF queryString # <<>> /\ queryString[1] = "?" THEN Tail(queryString)
                ELSE queryString
        parts == SelectSeq(split(init, "&"), LAMBDA part : part # <<>>)
        pair(part) ==
            LET eq == indexOf(part, <<"=">>, 0)
            IN IF eq = -1 THEN <<formDecode(part), <<>>>>
               ELSE <<formDecode(SubSeq(part, 1, eq)),
                      formDecode(SubSeq(part, eq + 2, Len(part)))>>
    IN [k \in 1..Len(parts) |-> pair(parts[k])]

\* params.get(name): the value of the first pair of that name, or null.
paramsGet(params, name) ==
    LET hits == {k \in 1..Len(params) : params[k][1] = name}
    IN IF hits = {} THEN [isNull |-> TRUE, value |-> <<>>]
       ELSE [isNull |-> FALSE, value |-> params[Min(hits)][2]]

DocPath == <<"/", "d", "o", "c", "/">>
SearchPath == <<"/", "s", "e", "a", "r", "c", "h">>
SearchDocHash == <<"#">> \o SearchPath \o <<"?", "d", "o", "c", "=">>
DocumentUrl == <<"/", "a", "p", "i", "/", "d", "o", "c", "u", "m", "e", "n", "t", "/">>

\* String.prototype.replace(t, ''): the first occurrence of t removed.
removeFirst(s, t) ==
    LET at == indexOf(s, t, 0)
    IN IF at = -1 THEN s ELSE SubSeq(s, 1, at) \o SubSeq(s, at + Len(t) + 1, Len(s))

startsWith(s, t) == occursAt(s, t, 0)

\* The fragment a browser keeps for window.location.hash = h: the leading '#'
\* aside, a space is percent-encoded; the getter gives '' for an empty fragment.
locationHashOf(h) ==
    LET frag == IF h # <<>> /\ h[1] = "#" THEN Tail(h) ELSE h
        enc == joinAll([k \in 1..Len(frag) |->
                          IF frag[k] = " " THEN percentByte(32) ELSE <<frag[k]>>])
    IN IF enc = <<>> THEN <<>> ELSE <<"#">> \o enc

\* goToDocument(id): the hash it assigns (line 204).
goToDocumentHash(id) == SearchDocHash \o encodeURIComponent(id)

\* The route effect (lines 178-200) on a hash: what it hands to
\* setSelectedDocId ("kept" when it does not call it).
parseRoute(h) ==
    LET stripped == removeFirst(h, <<"#">>)
        path == IF stripped = <<>> THEN SearchPath ELSE stripped
    IN IF startsWith(path, DocPath)
       THEN LET dec == decodeURIComponent(removeFirst(path, DocPath))
            IN IF dec.threw THEN [kind |-> "threw", isNull |-> TRUE, value |-> <<>>]
               ELSE [kind |-> "doc", isNull |-> FALSE, value |-> dec.value]
       ELSE IF startsWith(path, SearchPath)
       THEN LET queryStart == indexOf(path, <<"?">>, 0)
            IN IF queryStart # -1
               THEN LET got == paramsGet(URLSearchParams(SubSeq(path, queryStart + 2, Len(path))),
                                         <<"d", "o", "c">>)
                    IN [kind |-> "search", isNull |-> got.isNull, value |-> got.value]
               ELSE [kind |-> "search", isNull |-> TRUE, value |-> <<>>]
       ELSE [kind |-> "kept", isNull |-> TRUE, value |-> <<>>]

\* getDocument(id): the URL it fetches (line 63).
getDocumentUrl(id) == DocumentUrl \o encodeURIComponent(id)

RtInit ==
    /\ rtId \in Ids
    /\ rtPc = "input"
    /\ rtHash = <<>>
    /\ rtSelected = Null
    /\ rtRequest = <<>>

\* goToDocument(rtId): window.location.hash is assigned.
RtGoToDocument ==
    /\ rtPc = "input"
    /\ rtHash' = locationHashOf(goToDocumentHash(rtId))
    /\ rtPc' = "written"
    /\ UNCHANGED <<rtId, rtSelected, rtRequest, offRtVars>>

\* handleHashChange and the route effect: the hash is parsed.
RtRoute ==
    /\ rtPc = "written"
    /\ rtSelected' = parseRoute(rtHash)
    /\ rtPc' = "routed"
    /\ UNCHANGED <<rtId, rtHash, rtRequest, offRtVars>>

\* DocumentPage's effect: getDocument(selectedDocId), for a non-empty id.
RtGetDocument ==
    /\ rtPc = "routed"
    /\ ~rtSelected.isNull
    /\ rtSelected.value # <<>>
    /\ rtRequest' = getDocumentUrl(rtSelected.value)
    /\ rtPc' = "requested"
    /\ UNCHANGED <<rtId, rtHash, rtSelected, offRtVars>>

RtNext == RtGoToDocument \/ RtRoute \/ RtGetDocument

InitRT == RtInit /\ HlIdle /\ UiIdle /\ ScIdle /\ SvIdle /\ RkIdle /\ XIdle

SpecRT == InitRT /\ [][RtNext]_vars

(***************************************************************************)
(* useScrollRestoration for one pane of SplitLayout, which <Main           *)
(* key={reloadKey}> remounts.  -1 stands for undefined / no value.         *)
(*                                                                         *)
(* React versions differ in when the effect cleanup of the unmounted       *)
(* instance runs: before the layout effect of the new instance or after    *)
(* it, and with the element still attached (scrollTop is the pane's        *)
(* position) or already detached (scrollTop is 0).  ScRemount takes every  *)
(* one of these outcomes.                                                  *)
(***************************************************************************)
MaxScroll == 2     \* scroll positions 0..MaxScroll
MaxRemounts == 2   \* remounts of the pane

\* The cleanup of the save effect (lines 80-90): the store after it ran, when
\* element.scrollTop reads `seen`.
scrollCleanup(store, timeoutId, seen) ==
    IF timeoutId /\ seen > 0 THEN seen ELSE store

ScInit ==
    /\ scTop = 0
    /\ scEvent = FALSE
    /\ scStore = -1
    /\ scTimer = FALSE
    /\ scTimeoutId = FALSE
    /\ scRaf = -1
    /\ scAtUnmount = -1
    /\ scRestored = -1
    /\ scRemounts = 0

\* The pane is scrolled to p: scrollTop changes and a scroll event is queued
\* for the listener registered at line 77.
ScScroll(p) ==
    /\ p # scTop
    /\ scTop' = p
    /\ scEvent' = TRUE
    /\ UNCHANGED <<scStore, scTimer, scTimeoutId, scRaf, scAtUnmount, scRestored,
                   scRemounts, offScVars>>

\* The queued scroll event is dispatched: handleScroll (lines 70-75) restarts
\* the timer.
ScScrollEvent ==
    /\ scEvent
    /\ scEvent' = FALSE
    /\ scTimer' = TRUE
    /\ scTimeoutId' = TRUE
    /\ UNCHANGED <<scTop, scStore, scRaf, scAtUnmount, scRestored, scRemounts, offScVars>>

\* The 100 ms timer fires (lines 72-74); timeoutId keeps its value.
ScTimerFire ==
    /\ scTimer
    /\ scStore' = scTop
    /\ scTimer' = FALSE
    /\ UNCHANGED <<scTop, scEvent, scTimeoutId, scRaf, scAtUnmount, scRestored,
                   scRemounts, offScVars>>

\* The second animation frame of the restore (lines 56-60): scrollTo, which
\* queues a scroll event when the position changes.
ScRafFire ==
    /\ scRaf # -1
    /\ scTop' = scRaf
    /\ scRaf' = -1
    /\ scEvent' = (scEvent \/ scRaf # scTop)
    /\ UNCHANGED <<scStore, scTimer, scTimeoutId, scAtUnmount, scRestored, scRemounts,
                   offScVars>>

\* The pane is unmounted and mounted again: the cleanup of the old instance
\* (lines 80-90) and the restore effect of the new one (lines 51-62).
ScRemount(seen, cleanupFirst) ==
    /\ scRemounts < MaxRemounts
    /\ LET after == scrollCleanup(scStore, scTimeoutId, seen)
           saved == IF cleanupFirst THEN after ELSE scStore
       IN /\ scStore' = after
          /\ scRestored' = saved
          /\ scRaf' = saved
    /\ scAtUnmount' = scTop
    /\ scTop' = 0
    /\ scEvent' = FALSE
    /\ scTimer' = FALSE
    /\ scTimeoutId' = FALSE
    /\ scRemounts' = scRemounts + 1
    /\ UNCHANGED offScVars

ScNext ==
    \/ \E p \in 0..MaxScroll : ScScroll(p)
    \/ ScScrollEvent
    \/ ScTimerFire
    \/ ScRafFire
    \/ \E seen \in {scTop, 0}, cleanupFirst \in BOOLEAN : ScRemount(seen, cleanupFirst)

InitSC == ScInit /\ HlIdle /\ UiIdle /\ RtIdle /\ SvIdle /\ RkIdle /\ XIdle

SpecSC == InitSC /\ [][ScNext]_vars

(***************************************************************************)
(* The core behind the API: the Index, the Reload Coordinator and a query   *)
(* reading the Index.  This part is not in the client sources; it is        *)
(* modelled from the design text (sections 3, 4.3, 4.5, 5, 6).              *)
(***************************************************************************)
\* Block lines of a file's content -> the Documents extracted from it: the id
\* is a function of (file_path, line_number).
docId(f, l) == <<f, l>>
DocsOf(f, c) == {[id |-> docId(f, l), file |-> f, line |-> l, rev |-> c.rev] : l \in c.lines}
FileDocs(idx, f) == {d \in idx : d.file = f}

\* Mutant of replaceFile: documents are upserted by id, the others are kept.
replaceFileUpserts(idx, f, new) ==
    {d \in idx : \A n \in new : n.id # d.id} \cup new

\* Index.replace_file(file_path, new_documents): removes all prior documents
\* of the file and inserts the new ones, as one visible step.
replaceFile(idx, f, new) == {d \in idx : d.file # f} \cup new

\* Mutant of afterFailure: a failed re-extraction empties the file's entries.
afterFailureDrops(idx, f) == {d \in idx : d.file # f}

\* The Index after a failed re-extraction of f: the prior documents intact.
afterFailure(idx, f) == idx

\* Index.snapshot(): an immutable view.
snapshot(idx) == idx

\* Mutant of readSlot: the query reads the Index being written.
readSlotLive(snap, live, slot) == {d \in live : d.id = slot}

\* A query reads the documents at one id from the snapshot it took.
readSlot(snap, live, slot) == {d \in snap : d.id = slot}

fileRank(f) == CHOOSE k \in 1..Len(FileNames) : FileNames[k] = f
\* by file path, then line number
docBefore(a, b) ==
    fileRank(a.file) < fileRank(b.file) \/ (a.file = b.file /\ a.line < b.line)

\* list_documents(): stable order, by file path, then line number.
RECURSIVE listDocuments(_)
listDocuments(idx) ==
    IF idx = {} THEN <<>>
    ELSE LET first == CHOOSE d \in idx : \A e \in idx \ {d} : docBefore(d, e)
         IN <<first>> \o listDocuments(idx \ {first})

NotFound == [notFound |-> TRUE]
\* get_document(id): fails with NotFound if no live document has that id.
getDocument(idx, id) ==
    IF \E d \in idx : d.id = id THEN CHOOSE d \in idx : d.id = id ELSE NotFound

\* The state a change event moves a file to: an extraction already in
\* Reextracting runs to completion.
afterChange(state) == IF state = "Reextracting" THEN "Reextracting" ELSE "ChangePending"

\* Mutant of afterExtraction: a change during the extraction is forgotten.
afterExtractionForgets(dirty, rest) == rest

\* The state after an extraction ended: another cycle if the file changed
\* again during the extraction.
afterExtraction(dirty, rest) == IF dirty THEN "ChangePending" ELSE rest

SvInit ==
    /\ svFs = [f \in Files |-> NoContent]
    /\ svIndex = {}
    /\ svState = [f \in Files |-> "Unchanged"]
    /\ svRead = [f \in Files |-> NoContent]
    /\ svDirty = [f \in Files |-> FALSE]
    /\ svLast = [f \in Files |-> "none"]
    /\ svChanges = 0
    /\ qPc = "idle"
    /\ qSnap = {}
    /\ qSeen = {}
    /\ qTodo = <<>>
    /\ qVersions = {}

\* A change event of the file watcher: the file now holds blocks at `lines`
\* (none when it was deleted).
FileChange(f, lines) ==
    /\ svChanges < MaxChanges
    /\ svChanges' = svChanges + 1
    /\ svFs' = [svFs EXCEPT ![f] = [rev |-> svChanges + 1, lines |-> lines]]
    /\ svState' = [svState EXCEPT ![f] = afterChange(svState[f])]
    /\ svDirty' = [svDirty EXCEPT ![f] = (svState[f] = "Reextracting")]
    /\ UNCHANGED <<svIndex, svRead, svLast, qVars, offSvVars>>

\* The debounce window of a file ends: its bytes are read, extraction begins.
DebounceExpire(f) ==
    /\ svState[f] = "ChangePending"
    /\ svState' = [svState EXCEPT ![f] = "Reextracting"]
    /\ svRead' = [svRead EXCEPT ![f] = svFs[f]]
    /\ svDirty' = [svDirty EXCEPT ![f] = FALSE]
    /\ UNCHANGED <<svFs, svIndex, svLast, svChanges, qVars, offSvVars>>

\* The extraction succeeds: Index.replace_file, then the notification.
ExtractSuccess(f) ==
    /\ svState[f] = "Reextracting"
    /\ svIndex' = replaceFile(svIndex, f, DocsOf(f, svRead[f]))
    /\ svState' = [svState EXCEPT ![f] = afterExtraction(svDirty[f], "Swapped")]
    /\ svDirty' = [svDirty EXCEPT ![f] = FALSE]
    /\ svLast' = [svLast EXCEPT ![f] = "swapped"]
    /\ qVersions' = IF qPc = "reading" THEN qVersions \cup {svIndex'} ELSE qVersions
    /\ UNCHANGED <<svFs, svRead, svChanges, qPc, qSnap, qSeen, qTodo, offSvVars>>

\* The extraction fails: a diagnostic is logged.
ExtractFail(f) ==
    /\ svState[f] = "Reextracting"
    /\ svIndex' = afterFailure(svIndex, f)
    /\ svState' = [svState EXCEPT ![f] = afterExtraction(svDirty[f], "Unchanged")]
    /\ svDirty' = [svDirty EXCEPT ![f] = FALSE]
    /\ svLast' = [svLast EXCEPT ![f] = "failed"]
    /\ qVersions' = IF qPc = "reading" THEN qVersions \cup {svIndex'} ELSE qVersions
    /\ UNCHANGED <<svFs, svRead, svChanges, qPc, qSnap, qSeen, qTodo, offSvVars>>

\* A query begins: it takes its snapshot.
QueryBegin ==
    /\ qPc \in {"idle", "done"}
    /\ qPc' = "reading"
    /\ qSnap' = snapshot(svIndex)
    /\ qSeen' = {}
    /\ qTodo' = Slots
    /\ qVersions' = {svIndex}
    /\ UNCHANGED <<svVarsCore, offSvVars>>

\* The query reads the documents at the next id.
QueryRead ==
    /\ qPc = "reading"
    /\ qSeen' = qSeen \cup readSlot(qSnap, svIndex, Head(qTodo))
    /\ qTodo' = Tail(qTodo)
    /\ qPc' = IF qTodo' = <<>> THEN "done" ELSE "reading"
    /\ UNCHANGED <<qSnap, qVersions, svVarsCore, offSvVars>>

SvNext ==
    \/ \E f \in Files, lines \in SUBSET (1..MaxLines) : FileChange(f, lines)
    \/ \E f \in Files : DebounceExpire(f)
    \/ \E f \in Files : ExtractSuccess(f)
    \/ \E f \in Files : ExtractFail(f)
    \/ QueryBegin
    \/ QueryRead

InitSV == SvInit /\ HlIdle /\ UiIdle /\ RtIdle /\ ScIdle /\ RkIdle /\ XIdle

SpecSV == InitSV /\ [][SvNext]_vars

\* The debounce timer fires and an extraction ends.
SvFairness ==
    \A f \in Files :
        /\ WF_vars(DebounceExpire(f))
        /\ WF_vars(ExtractSuccess(f) \/ ExtractFail(f))

\* The Reload Coordinator and the Index without queries.
CoordinatorNext ==
    \/ \E f \in Files, lines \in SUBSET (1..MaxLines) : FileChange(f, lines)
    \/ \E f \in Files : DebounceExpire(f)
    \/ \E f \in Files : ExtractSuccess(f)
    \/ \E f \in Files : ExtractFail(f)

SpecSVFair == InitSV /\ [][CoordinatorNext]_vars /\ SvFairness

(***************************************************************************)
(* The Search Engine's ranking (section 4.4 of the design text): scoring,   *)
(* match_type and the final rank order of the hits of one query.            *)
(***************************************************************************)
MaxHits == 3       \* documents in the Index that is searched
MaxTf == 2         \* occurrences of the query in one field of a document

TitleWeight == 2   \* title weighted higher than content
ContentWeight == 1

RankLines == {1, 2}
RankIds == {<<f, l>> : f \in Files, l \in RankLines}
TermFrequencies == [titleTf : 0..MaxTf, contentTf : 0..MaxTf]
\* The Indexes a search may run over: term frequencies of up to MaxHits documents.
RankIndexes ==
    UNION {[ids -> TermFrequencies] : ids \in {S \in SUBSET RankIds : Cardinality(S) <= MaxHits}}

\* Combined score: term frequency weighted by field weight.
scoreOf(tf) == TitleWeight * tf.titleTf + ContentWeight * tf.contentTf

matchTypeOf(tf) ==
    IF tf.titleTf > 0 /\ tf.contentTf > 0 THEN "both"
    ELSE IF tf.titleTf > 0 THEN "title"
    ELSE "content"

\* both > title > content
precedence(matchType) ==
    IF matchType = "both" THEN 2 ELSE IF matchType = "title" THEN 1 ELSE 0

hitOf(idx, id) ==
    [id |-> id, file |-> id[1], line |-> id[2],
     score |-> scoreOf(idx[id]), match_type |-> matchTypeOf(idx[id])]

\* The candidate documents: those the query matches in some field.
candidates(idx) == {id \in DOMAIN idx : idx[id].titleTf > 0 \/ idx[id].contentTf > 0}

\* Mutant of rankKey: ties in score are broken by file path and line only.
rankKeyWithoutMatchType(h) == <<0 - h.score, 0, fileRank(h.file), h.line>>

\* The sort key of a hit: descending score, then match_type precedence, then
\* ascending file path, then line number.
rankKey(h) == <<0 - h.score, 0 - precedence(h.match_type), fileRank(h.file), h.line>>

RECURSIVE lexLess(_, _)
lexLess(a, b) ==
    IF a = <<>> \/ b = <<>> THEN FALSE
    ELSE Head(a) < Head(b) \/ (Head(a) = Head(b) /\ lexLess(Tail(a), Tail(b)))

rankBefore(a, b) == lexLess(rankKey(a), rankKey(b))

RECURSIVE insertHit(_, _)
insertHit(h, sorted) ==
    IF sorted = <<>> THEN <<h>>
    ELSE IF rankBefore(h, Head(sorted)) THEN <<h>> \o sorted
    ELSE <<Head(sorted)>> \o insertHit(h, Tail(sorted))

\* A stable sort of the hits by rank.
RECURSIVE sortHits(_)
sortHits(hits) ==
    IF hits = <<>> THEN <<>> ELSE insertHit(Head(hits), sortHits(Tail(hits)))

\* The orders in which the candidates of an Index may be enumerated.
RECURSIVE Enumerations(_)
Enumerations(S) ==
    IF S = {} THEN {<<>>}
    ELSE UNION {{<<x>> \o e : e \in Enumerations(S \ {x})} : x \in S}

\* search(query): the ranked hits, the candidates having been enumerated in
\* the order `enum`.
search(idx, enum) == sortHits([k \in 1..Len(enum) |-> hitOf(idx, enum[k])])

RkInit ==
    /\ rkIndex \in RankIndexes
    /\ rkResults = <<>>
    /\ rkPrev = <<>>
    /\ rkPc = "idle"

\* A search of the query over the Index, and the same search once more.
RkSearch ==
    /\ rkPc # "repeated"
    /\ \E enum \in Enumerations(candidates(rkIndex)) :
            rkResults' = search(rkIndex, enum)
    /\ rkPrev' = rkResults
    /\ rkPc' = IF rkPc = "idle" THEN "searched" ELSE "repeated"
    /\ UNCHANGED <<rkIndex, offRkVars>>

RkNext == RkSearch

InitRK == RkInit /\ HlIdle /\ UiIdle /\ RtIdle /\ ScIdle /\ SvIdle /\ XIdle

SpecRK == InitRK /\ [][RkNext]_vars

(***************************************************************************)
(* The life of the event connection: setupSSE (sse.ts) under App's effect   *)
(* with the empty dependency list (App.tsx lines 159-167).                  *)
(***************************************************************************)
MaxAppMounts == 2   \* mounts of App
MaxQueued == 2      \* event tasks queued at a time

EventTypes == {"file-changed", "ping", "error"}

\* Mutant of setupSSE: the cleanup returned does not close the EventSource.
setupSSENeverCloses(sources, constructs) ==
    IF constructs
    THEN [sources |-> Append(sources, "open"), cleanup |-> 0, threw |-> FALSE]
    ELSE [sources |-> sources, cleanup |-> 0, threw |-> FALSE]

\* setupSSE (lines 10-39): new EventSource inside try; the cleanup closes that
\* source; the catch returns a no-op cleanup and does not rethrow.
setupSSE(sources, constructs) ==
    IF constructs
    THEN [sources |-> Append(sources, "open"), cleanup |-> Len(sources) + 1, threw |-> FALSE]
    ELSE [sources |-> sources, cleanup |-> 0, threw |-> FALSE]

\* eventSource.close() by the cleanup (lines 30-33); the no-op closes nothing.
runCleanup(sources, cleanup) ==
    IF cleanup = 0 THEN sources ELSE [sources EXCEPT ![cleanup] = "closed"]

\* Does App's SSE effect run again when App re-renders with a new reloadKey?
\* Its dependency list is empty (line 167).
sseEffectReruns == FALSE

EsInit == XIdle

\* App mounts: the effect calls setupSSE and keeps its cleanup.
EsMount(constructs) ==
    /\ ~esMounted
    /\ esMounts < MaxAppMounts
    /\ esMounted' = TRUE
    /\ esMounts' = esMounts + 1
    /\ LET r == setupSSE(esSources, constructs)
       IN /\ esSources' = r.sources
          /\ esCleanup' = r.cleanup
          /\ esThrew' = (esThrew \/ r.threw)
    /\ UNCHANGED <<esQueue, esReloadKey, clVars, pvVars, hlVars, uiVars, rtVars, scVars, svVars, rkVars>>

\* App unmounts: React runs the cleanup the effect returned.
EsUnmount ==
    /\ esMounted
    /\ esMounted' = FALSE
    /\ esSources' = runCleanup(esSources, esCleanup)
    /\ esCleanup' = 0
    /\ UNCHANGED <<esMounts, esThrew, esQueue, esReloadKey, clVars, pvVars, hlVars, uiVars, rtVars,
                   scVars, svVars, rkVars>>

\* An open EventSource receives an event from the server, or fails: the
\* browser queues the task that dispatches it.
EsEvent(k, type) ==
    /\ esSources[k] = "open"
    /\ Len(esQueue) < MaxQueued
    /\ esQueue' = Append(esQueue, [source |-> k, type |-> type])
    /\ UNCHANGED <<esMounted, esMounts, esSources, esCleanup, esThrew, esReloadKey, clVars,
                   pvVars, hlVars, uiVars, rtVars, scVars, svVars, rkVars>>

\* The queued task runs: nothing is dispatched on a closed source; otherwise
\* the listener for the type runs (lines 15-27).  A 'file-changed' event calls
\* onReload, which re-renders App with a new key for <Main>; an error leaves
\* the source reconnecting or, when fatal, closed.
EsDispatch(fatal) ==
    /\ esQueue # <<>>
    /\ esQueue' = Tail(esQueue)
    /\ LET e == Head(esQueue)
           live == esSources[e.source] = "open"
           reload == live /\ sseListener(e.type) = "onReload"
           failed == IF live /\ e.type = "error" /\ fatal
                     THEN [esSources EXCEPT ![e.source] = "closed"] ELSE esSources
       IN /\ reload => esReloadKey < MaxReloads
          /\ esReloadKey' = IF reload THEN onReload(esReloadKey) ELSE esReloadKey
          /\ IF reload /\ sseEffectReruns
             THEN LET r == setupSSE(runCleanup(failed, esCleanup), TRUE)
                  IN /\ esSources' = r.sources
                     /\ esCleanup' = r.cleanup
                     /\ esThrew' = (esThrew \/ r.threw)
             ELSE /\ esSources' = failed
                  /\ UNCHANGED <<esCleanup, esThrew>>
    /\ UNCHANGED <<esMounted, esMounts, clVars, pvVars, hlVars, uiVars, rtVars, scVars, svVars, rkVars>>

EsNext ==
    \/ \E constructs \in BOOLEAN : EsMount(constructs)
    \/ EsUnmount
    \/ \E k \in 1..Len(esSources), type \in EventTypes : EsEvent(k, type)
    \/ \E fatal \in BOOLEAN : EsDispatch(fatal)

InitES == EsInit /\ HlIdle /\ UiIdle /\ RtIdle /\ ScIdle /\ SvIdle /\ RkIdle

SpecES == InitES /\ [][EsNext]_vars

(***************************************************************************)
(* The preview of a result card (SearchPage, part_000 lines 216-241).       *)
(***************************************************************************)
previewChars == 200

\* Contents with markdown characters, long enough to exceed the preview.
PreviewContents == {Flatten(b) : b \in SeqsUpTo({"i", "*", " ", PAD}, MaxContentLen)}
PreviewQueries == {<<>>, <<" ">>, <<"I">>, <<"*">>}
MatchTypes == {"title", "content", "both"}

\* text.replace(/[#*`_]/g, ''); "backtick" is U+0060.
RECURSIVE stripMarkdown(_)
stripMarkdown(text) ==
    IF text = <<>> THEN <<>>
    ELSE IF Len(text) = 1
         THEN (IF text[1] \in {"#", "*", "backtick", "_"} THEN <<>> ELSE text)
    ELSE LET half == Len(text) \div 2
         IN stripMarkdown(SubSeq(text, 1, half)) \o stripMarkdown(SubSeq(text, half + 1, Len(text)))

\* The spans rendered for the segments of an excerpt (lines 225-231).
renderSegments(segs) ==
    [k \in 1..Len(segs) |->
        IF segs[k].isMatch THEN [text |-> segs[k].text, highlighted |-> TRUE]
        ELSE [text |-> stripMarkdown(segs[k].text), highlighted |-> FALSE]]

\* Default preview: first 200 chars (lines 237-239).
defaultPreview(cont) ==
    [kind |-> "text",
     text |-> stripMarkdown(substring(cont, 0, previewChars))
              \o (IF Len(cont) > previewChars THEN Ellipsis ELSE <<>>)]

\* Mutant of contentPreview: the excerpt is shown for every match_type.
contentPreviewAnyMatchType(hasSearched, q, matchType, cont) ==
    LET excerpt == extractExcerpt(cont, q, contextCharsDefault)
    IN IF hasSearched /\ trim(q) # <<>> /\ excerpt # Null
       THEN [kind |-> "excerpt", parts |-> renderSegments(highlightMatches(excerpt.excerpt, q))]
       ELSE defaultPreview(cont)

\* The function rendered inside <ContentPreview> (lines 217-240).
contentPreview(hasSearched, q, matchType, cont) ==
    LET excerpt == extractExcerpt(cont, q, contextCharsDefault)
    IN IF /\ hasSearched
          /\ trim(q) # <<>>
          /\ matchType \in {"content", "both"}
          /\ excerpt # Null
       THEN [kind |-> "excerpt", parts |-> renderSegments(highlightMatches(excerpt.excerpt, q))]
       ELSE defaultPreview(cont)

PvInit ==
    /\ backClicks = 0
    /\ esMounted = FALSE
    /\ esMounts = 0
    /\ esSources = <<>>
    /\ esCleanup = 0
    /\ esThrew = FALSE
    /\ esQueue = <<>>
    /\ esReloadKey = 0
    /\ pvContent \in PreviewContents
    /\ pvQuery \in PreviewQueries
    /\ pvHasSearched \in BOOLEAN
    /\ pvMatchType \in MatchTypes
    /\ pvPc = "input"
    /\ pvShown = Null

\* The card is rendered.
PvRender ==
    /\ pvPc = "input"
    /\ pvPc' = "shown"
    /\ pvShown' = contentPreview(pvHasSearched, pvQuery, pvMatchType, pvContent)
    /\ UNCHANGED <<pvContent, pvQuery, pvHasSearched, pvMatchType, clVars, esVars,
                   hlVars, uiVars, rtVars, scVars, svVars, rkVars>>

PvNext == PvRender

InitPV == PvInit /\ HlIdle /\ UiIdle /\ RtIdle /\ ScIdle /\ SvIdle /\ RkIdle

SpecPV == InitPV /\ [][PvNext]_vars

(***************************************************************************)
(* Properties of highlightMatches.                                         *)
(***************************************************************************)
RECURSIVE concatTexts(_)
concatTexts(segs) ==
    IF segs = <<>> THEN <<>> ELSE Head(segs).text \o concatTexts(Tail(segs))

\* highlightMatches has been called and `segments` is what it returned.
highlighted == hlPc = "highlight" \/ (hlPc = "preview" /\ excerptRes # Null)

\* C1: concatenating the text of all segments highlightMatches(text, query)
\* returns, in order, gives back text exactly, for every text and query (empty,
\* whitespace-only and regex-special ones included).
C1_HighlightCoverage == highlighted => concatTexts(segments) = hlText

\* C1 witness: a text cut into at least three segments around a match of a
\* query that holds the regex-special ".".
C1_Witness ==
    /\ hlPc = "highlight"
    /\ \E k \in 1..Len(query) : query[k] = "."
    /\ Len(segments) >= 3
    /\ \E k \in 1..Len(segments) : segments[k].isMatch

\* C6 as stated: for a non-empty query no two consecutive segments have the
\* same isMatch value.
C6_Alternating ==
    (highlighted /\ trim(query) # <<>>) =>
        \A k \in 1..(Len(segments) - 1) : segments[k].isMatch # segments[k + 1].isMatch

\* C6 amended: for a non-empty query no two consecutive segments are both
\* non-matching and no non-matching segment is empty; two consecutive segments
\* with the same isMatch value are therefore always two adjacent matches.
C6_NoAdjacentNonMatch ==
    (highlighted /\ trim(query) # <<>>) =>
        /\ \A k \in 1..(Len(segments) - 1) : segments[k].isMatch \/ segments[k + 1].isMatch
        /\ \A k \in 1..Len(segments) : ~segments[k].isMatch => segments[k].text # <<>>

\* C6 witness: two occurrences of the phrase side by side give two consecutive
\* matching segments.
C6_Witness ==
    /\ hlPc = "highlight"
    /\ trim(query) # <<>>
    /\ \E k \in 1..(Len(segments) - 1) : segments[k].isMatch /\ segments[k + 1].isMatch
    /\ \E k \in 1..Len(segments) : ~segments[k].isMatch

\* C7: every segment with isMatch true is a piece of the input text, as the
\* text writes it, that equals the trimmed query case-insensitively; a
\* regex-special unit of the query matches only itself.
C7_LiteralMatch ==
    highlighted =>
        \A k \in 1..Len(segments) :
            segments[k].isMatch =>
                /\ toLowerCase(segments[k].text) = toLowerCase(trim(query))
                /\ occursAt(hlText, segments[k].text, Len(concatTexts(SubSeq(segments, 1, k - 1))))

\* C7 witness: a query holding "." matched in a text that also holds other
\* units, which stay unmarked.
C7_Witness ==
    /\ hlPc = "highlight"
    /\ \E k \in 1..Len(query) : query[k] = "."
    /\ \E k \in 1..Len(segments) : segments[k].isMatch
    /\ \E k \in 1..Len(segments) : ~segments[k].isMatch /\ segments[k].text # <<" ">>

(***************************************************************************)
(* Properties of extractExcerpt.                                           *)
(***************************************************************************)
\* The phrase occurs in cont at position p, over m units, case-insensitively.
ciOccursAt(cont, q, p, m) ==
    /\ p >= 0
    /\ m >= 1
    /\ p + m <= Len(cont)
    /\ toLowerCase(SubSeq(cont, p + 1, p + m)) = toLowerCase(trim(q))

ciOccurrences(cont, q) ==
    {pm \in (0..Len(cont)) \X (1..Len(toLowerCase(trim(q)))) : ciOccursAt(cont, q, pm[1], pm[2])}

\* The leftmost occurrence, as <<position, length>>.
firstOccurrence(cont, q) ==
    CHOOSE pm \in ciOccurrences(cont, q) : \A o \in ciOccurrences(cont, q) : pm[1] <= o[1]

excerpted == hlPc = "preview" /\ excerptRes # Null

\* extractExcerpt's locals at its return.
excerptLoc == excerptRes.loc

clamp(n, len) == IF n < 0 THEN 0 ELSE IF n > len THEN len ELSE n

\* The excerpt body (the excerpt without its markers) is content[bodyStart, bodyEnd).
bodyStart == Min({clamp(excerptLoc.excerptStart, Len(content)), clamp(excerptLoc.excerptEnd, Len(content))})
bodyEnd == Max({clamp(excerptLoc.excerptStart, Len(content)), clamp(excerptLoc.excerptEnd, Len(content))})

\* C2 as stated: the excerpt body begins at position 0 of the content or right
\* after a space, and ends at the end of the content or right before a space.
C2_WordBoundary ==
    excerpted =>
        /\ bodyStart = 0 \/ content[bodyStart] = " "
        /\ bodyEnd = Len(content) \/ content[bodyEnd + 1] = " "

\* C2 amended: the body begins at position 0, or right after a space, or no
\* space lies between the start of the context window and the located match;
\* it ends at the end of the content, or right before a space, or no space lies
\* after the position following the located match up to the end of the window.
C2_WordBoundaryIfSpace ==
    excerpted =>
        /\ \/ excerptLoc.excerptStart = 0
           \/ content[excerptLoc.excerptStart] = " "
           \/ /\ excerptLoc.excerptStart = excerptLoc.windowStart
              /\ \A p \in excerptLoc.windowStart..(excerptLoc.matchIndex - 1) :
                    p < Len(content) => content[p + 1] # " "
        /\ \/ excerptLoc.excerptEnd = Len(content)
           \/ content[excerptLoc.excerptEnd + 1] = " "
           \/ /\ excerptLoc.excerptEnd = excerptLoc.windowEnd
              /\ \A p \in (excerptLoc.matchEnd + 1)..excerptLoc.windowEnd :
                    p < Len(content) => content[p + 1] # " "

\* C2 witness: the window started inside the content and the start was moved
\* to the position after the next space.
C2_Witness ==
    /\ excerpted
    /\ excerptLoc.windowStart > 0
    /\ excerptLoc.excerptStart > excerptLoc.windowStart
    /\ content[excerptLoc.excerptStart] = " "

\* C3: extractExcerpt returns null exactly when the trimmed query is empty or
\* does not occur in the content case-insensitively; otherwise the match it
\* locates is the leftmost such occurrence and the excerpt body holds it.
C3_LocatesFirstOccurrence ==
    hlPc = "preview" =>
        /\ excerptRes = Null <=> (trim(query) = <<>> \/ ciOccurrences(content, query) = {})
        /\ excerptRes # Null =>
              LET occ == firstOccurrence(content, query)
              IN /\ excerptLoc.matchIndex = occ[1]
                 /\ bodyStart <= occ[1]
                 /\ occ[1] + occ[2] <= bodyEnd

\* C4: whenever extractExcerpt returns an excerpt, the excerpt holds the whole
\* phrase and highlightMatches(excerpt, query) has a segment with isMatch true
\* whose text equals the trimmed query case-insensitively.
C4_ExcerptHighlighted ==
    excerpted =>
        /\ ciOccurrences(excerptRes.excerpt, query) # {}
        /\ \E k \in 1..Len(segments) :
              /\ segments[k].isMatch
              /\ toLowerCase(segments[k].text) = toLowerCase(trim(query))

\* C5: the excerpt is the body with the marker "..." put in front exactly when
\* the body does not start at position 0 of the content, and put behind exactly
\* when the body does not end at the end of the content.
C5_EllipsisIffTruncated ==
    excerpted =>
        excerptRes.excerpt =
            (IF bodyStart # 0 THEN <<".", ".", ".">> ELSE <<>>)
            \o SubSeq(content, bodyStart + 1, bodyEnd)
            \o (IF bodyEnd # Len(content) THEN <<".", ".", ".">> ELSE <<>>)

\* C5 witness: an excerpt that reaches the start of the content but not its
\* end: no marker in front, one behind.
C5_Witness ==
    /\ excerpted
    /\ bodyStart = 0
    /\ bodyEnd < Len(content)
    /\ Len(excerptRes.excerpt) = bodyEnd + 3

\* C8: with the default contextChars the body holds at most 100 units of
\* content before the matched phrase and at most 100 after it, hence at most
\* the phrase length plus 200 units.
C8_ContextBound ==
    (excerpted /\ ciOccurrences(content, query) # {}) =>
        LET occ == firstOccurrence(content, query)
        IN /\ occ[1] - bodyStart <= contextCharsDefault
           /\ bodyEnd - (occ[1] + occ[2]) <= contextCharsDefault
           /\ bodyEnd - bodyStart <= occ[2] + 2 * contextCharsDefault

(***************************************************************************)
(* Properties of the client.                                               *)
(***************************************************************************)
\* C9: while the query is empty or whitespace-only (the search effect has run
\* for it), the search pane shows exactly the list of all documents, each with
\* score 0, with hasSearched false, and no search request is or gets sent for
\* such a query, whatever the order of keystrokes, timers and responses.
C9_EmptyQueryShowsAll ==
    trim(searchQuery) = <<>> =>
        /\ spResults = zeroScore(spAllDocuments)
        /\ ~spHasSearched
        /\ spTimer = Null
        /\ \A r \in BagToSet(inflight) :
              r.kind = "search" => trim(r.q) # <<>>

\* C10: a step dispatches a 'file-changed' event exactly when it adds 1 to
\* reloadKey; that step remounts the search pane and the document pane (when a
\* document is selected) under the new key and has both fetch their data again.
\* No other step ('ping', a connection error, any other handler) changes
\* reloadKey.
C10_HotReload ==
    [][/\ fileChangedSeen' # fileChangedSeen =>
            /\ reloadKey' = reloadKey + 1
            /\ spMountKey' = reloadKey'
            /\ docsFetches' = docsFetches + 1
            /\ BagIn(DocsRequest, inflight')
            /\ selectedDocId # NoDoc =>
                  /\ dp'.mountKey = reloadKey'
                  /\ dp'.loading
                  /\ BagIn(DocRequest(selectedDocId), inflight')
       /\ fileChangedSeen' = fileChangedSeen => reloadKey' = reloadKey]_vars

\* C10 witness: two 'file-changed' events were dispatched with a document
\* selected; both panes are mounted under key 2 and the document is loading.
C10_Witness ==
    /\ fileChangedSeen = MaxReloads
    /\ reloadKey = MaxReloads
    /\ spMountKey = reloadKey
    /\ dp # Null
    /\ dp.mountKey = reloadKey
    /\ dp.loading

\* C11: every hashchange handled while the URL hash has the old format
\* '#/doc/{id}' leaves selectedDocId equal to the id and the URL hash rewritten
\* to '#/search?doc={id}', with no further hashchange queued, also when the
\* same old-format link is visited again.
C11_OldFormatRewritten ==
    [][(hashChangePending /\ ~hashChangePending' /\ locationHash.fmt = "#/doc/") =>
          /\ hash' = locationHash
          /\ selectedDocId' = locationHash.id
          /\ locationHash' = HashSearchDoc(locationHash.id)]_vars

\* C14: when getDocument rejects for an id the server has no live document
\* for, DocumentPage ends with loading false and the error view; a step that
\* issues a request (the pane mounts or its documentId changes) shows the
\* loading view, not the document loaded before; and the document view only
\* ever appears or changes in a step that receives a response, showing the
\* document of that response.
C14_NotFound ==
    [][/\ ( /\ dp # Null /\ dp' # Null /\ reloadKey' = reloadKey
            /\ BagIn(DocRequest(GoneId), inflight)
            /\ inflight' = inflight (-) One(DocRequest(GoneId)) ) =>
              (~dp'.loading /\ documentView(dp') = "error")
       /\ ( dp' # Null /\ (dp = Null \/ dp.documentId # dp'.documentId) ) =>
              documentView(dp') = "loading"
       /\ ( dp' # Null /\ dp' # dp /\ documentView(dp') = "document" ) =>
              \E r \in BagToSet(inflight) :
                  /\ r.kind = "doc"
                  /\ inflight' = inflight (-) One(r)
                  /\ dp'.document = r.id]_vars

\* C14 witness: the pane asked for the id without a live document after it had
\* loaded another document; the request failed and the error view is shown.
C14_Witness ==
    /\ dp # Null
    /\ dp.documentId = GoneId
    /\ dp.document # NoDoc
    /\ ~BagIn(DocRequest(GoneId), inflight)
    /\ documentView(dp) = "error"

(***************************************************************************)
(* Properties of the document id on its way to the request.                *)
(***************************************************************************)
\* The id part of the URL getDocument fetches.
requestedId == SubSeq(rtRequest, Len(DocumentUrl) + 1, Len(rtRequest))

\* C12: for every document id, parsing the hash goToDocument(id) writes gives
\* selectedDocId equal to id, and the URL getDocument then fetches carries the
\* id encoded exactly once: its id part is encodeURIComponent(id) and decodes,
\* in one decoding, to id.
C12_IdRoundTrip ==
    /\ rtPc \in {"routed", "requested"} =>
          /\ ~rtSelected.isNull
          /\ rtSelected.value = rtId
    /\ rtPc = "requested" =>
          /\ requestedId = encodeURIComponent(rtId)
          /\ decodeURIComponent(requestedId) = [threw |-> FALSE, value |-> rtId]

\* C12 witness: an id that holds an escape of its own ("%2F") and a separator
\* of the query string has gone all the way to the request.
C12_Witness ==
    /\ rtPc = "requested"
    /\ Len(rtId) = 3
    /\ rtId[1] = "%"
    /\ rtId[2] = "2"
    /\ rtSelected.value = rtId

(***************************************************************************)
(* Properties of useScrollRestoration.                                     *)
(***************************************************************************)
\* The position the hook restored at the last mount: the saved one, or the top
\* of the pane when none was saved.
restoredPosition == IF scRestored = -1 THEN 0 ELSE scRestored

\* C13: after any scroll events, an unmount and a remount of the pane, the
\* position the hook restores equals the scroll position at the unmount.
C13_ScrollRestored == scRemounts > 0 => restoredPosition = scAtUnmount

\* C23: in a step that unmounts the pane the pending debounced save is
\* cancelled, and the store entry changes only if a debounced save was
\* pending and the pane's scrollTop is greater than 0; a zero position is
\* never written.
C23_UnmountWrite ==
    [][scRemounts' # scRemounts =>
            /\ scTimer' = FALSE
            /\ scStore' # scStore => (scTimer /\ scTop > 0)
            /\ scStore' = 0 => scStore = 0]_vars

(***************************************************************************)
(* Properties of the Index and the Reload Coordinator.                      *)
(***************************************************************************)
\* The extraction of file f ends in this step.
extractionEnds(f) == svState[f] = "Reextracting" /\ svState'[f] # "Reextracting"

\* C15: a query that ran while files were swapped has seen, for each file,
\* one complete set of documents the Index held for that file at some moment
\* between the query's begin and its end (the set before a swap or the set
\* after it), never documents of two different sets.
C15_AtomicSwap ==
    qPc = "done" =>
        \A f \in Files : FileDocs(qSeen, f) \in {FileDocs(v, f) : v \in qVersions}

\* A query has finished during which a file with documents was swapped to
\* other documents.
C15_Witness ==
    /\ qPc = "done"
    /\ \E f \in Files :
        /\ FileDocs(qSnap, f) # {}
        /\ FileDocs(svIndex, f) # {}
        /\ FileDocs(qSnap, f) # FileDocs(svIndex, f)
        /\ FileDocs(qSeen, f) = FileDocs(qSnap, f)

\* C16: a step in which the re-extraction of a file fails leaves the Index
\* as it was: the file's documents, and so the listing, are the ones held
\* before; the Index changes only when an extraction succeeds.
C16_FailSafe ==
    [][/\ \A f \in Files :
            (extractionEnds(f) /\ svLast'[f] = "failed") =>
                /\ FileDocs(svIndex', f) = FileDocs(svIndex, f)
                /\ listDocuments(svIndex') = listDocuments(svIndex)
       /\ svIndex' # svIndex =>
            \E f \in Files : extractionEnds(f) /\ svLast'[f] = "swapped"]_vars

\* The re-extraction of a changed file failed and the Index still holds the
\* documents of the file's earlier content.
C16_Witness ==
    \E f \in Files :
        /\ svLast[f] = "failed"
        /\ svState[f] = "Unchanged"
        /\ FileDocs(svIndex, f) # {}
        /\ FileDocs(svIndex, f) # DocsOf(f, svFs[f])

\* C17 (safety part): a change while ChangePending starts no extraction of
\* its own; a change while Reextracting leaves the running extraction and
\* the Index alone; an extraction that begins reads the latest content; an
\* extraction that ends is followed by a further cycle exactly if the file
\* changed after it was read.
C17_Coalesced ==
    \A f \in Files :
        /\ (svFs'[f] # svFs[f] /\ svState[f] = "ChangePending") =>
                svState'[f] = "ChangePending" /\ svRead' = svRead
        /\ (svFs'[f] # svFs[f] /\ svState[f] = "Reextracting") =>
                svState'[f] = "Reextracting" /\ svRead' = svRead /\ svIndex' = svIndex
        /\ (svState[f] # "Reextracting" /\ svState'[f] = "Reextracting") =>
                svRead'[f] = svFs[f]
        /\ extractionEnds(f) =>
                ((svState'[f] = "ChangePending") <=> (svFs[f] # svRead[f]))

\* C17 as stated: once the changes of every file have ceased, the Index
\* eventually holds, and keeps, the documents of each file's latest content.
C17_NoLostChange ==
    <>[](\A f \in Files : FileDocs(svIndex, f) = DocsOf(f, svFs[f]))

\* C17 amended: changes are coalesced and never abort or lose a cycle, and
\* once the changes have ceased the Index eventually holds the documents of
\* each file's latest content unless the extraction of that latest content
\* failed.
C17_NoLostChangeUnlessFailed ==
    /\ [][C17_Coalesced]_vars
    /\ <>[](\A f \in Files :
                \/ FileDocs(svIndex, f) = DocsOf(f, svFs[f])
                \/ svLast[f] = "failed" /\ svRead[f] = svFs[f])

\* A file changed while its extraction was running.
C17_Witness ==
    \E f \in Files :
        /\ svState[f] = "Reextracting"
        /\ svDirty[f]
        /\ svRead[f].lines # {}
        /\ svFs[f] # svRead[f]

\* C18: when the reload cycle of a file completes with a swap, every
\* document the file had whose id the new extraction did not produce is
\* absent from list_documents() and get_document of its id fails with
\* NotFound.
C18_NoStale ==
    [][\A f \in Files :
            (extractionEnds(f) /\ svLast'[f] = "swapped") =>
                \A d \in FileDocs(svIndex, f) :
                    (\A n \in DocsOf(f, svRead[f]) : n.id # d.id) =>
                        /\ \A k \in 1..Len(listDocuments(svIndex')) :
                                listDocuments(svIndex')[k].id # d.id
                        /\ getDocument(svIndex', d.id) = NotFound]_vars

\* A document that a query's snapshot still holds is gone from the Index
\* after the reload cycle of its file completed.
C18_Witness ==
    \E d \in qSnap :
        /\ svState[d.file] = "Swapped"
        /\ getDocument(svIndex, d.id) = NotFound

(***************************************************************************)
(* Properties of the ranking.                                               *)
(***************************************************************************)
\* C19: the hits of a search are exactly the matching documents, each before
\* every later one in this order: higher combined score first; at equal
\* score both before title before content; at equal score and match_type the
\* smaller file path first, and in the same file the smaller line number
\* first.  A repeated search over the same Index returns the same sequence.
C19_RankingOrder ==
    rkPc # "idle" =>
        /\ {rkResults[k].id : k \in 1..Len(rkResults)} = candidates(rkIndex)
        /\ Len(rkResults) = Cardinality(candidates(rkIndex))
        /\ \A i, j \in 1..Len(rkResults) :
            i < j =>
                LET a == rkResults[i]
                    b == rkResults[j]
                    pa == IF a.match_type = "both" THEN 3 ELSE IF a.match_type = "title" THEN 2 ELSE 1
                    pb == IF b.match_type = "both" THEN 3 ELSE IF b.match_type = "title" THEN 2 ELSE 1
                IN  \/ a.score > b.score
                    \/ a.score = b.score /\ pa > pb
                    \/ a.score = b.score /\ pa = pb /\ fileRank(a.file) < fileRank(b.file)
                    \/ a.score = b.score /\ pa = pb /\ a.file = b.file /\ a.line < b.line
        /\ rkPc = "repeated" => rkPrev = rkResults

\* A search was repeated over three hits of which two tie in score with
\* different match_type and two tie in score and match_type.
C19_Witness ==
    /\ rkPc = "repeated"
    /\ Len(rkResults) = 3
    /\ \E i, j \in 1..3 :
        /\ rkResults[i].score = rkResults[j].score
        /\ rkResults[i].match_type # rkResults[j].match_type
    /\ \E i, j \in 1..3 :
        /\ i # j
        /\ rkResults[i].score = rkResults[j].score
        /\ rkResults[i].match_type = rkResults[j].match_type

(***************************************************************************)
(* Properties of the search debounce.                                       *)
(***************************************************************************)
searchRequests(bag) == OfKinds(bag, {"search"})

\* C20: a pending timer always belongs to the current query, which is not
\* blank (every change of the query or of the loaded list has replaced or
\* cancelled the timer set before it); a step sends a search request only by
\* firing the pending timer, sends exactly one, carrying the current query,
\* and leaves no timer pending; a step that changes the query or the loaded
\* document list sends no search request.
C20_SearchDebounce ==
    [][/\ spTimer' # Null => (spTimer'.q = searchQuery' /\ trim(searchQuery') # <<>>)
       /\ (\E r \in BagToSet(searchRequests(inflight')) :
                CopiesIn(r, inflight') > CopiesIn(r, inflight)) =>
            /\ spTimer # Null
            /\ spTimer' = Null
            /\ searchQuery' = searchQuery
            /\ spAllDocuments' = spAllDocuments
            /\ trim(searchQuery) # <<>>
            /\ inflight' = inflight (+) One(SearchRequest(searchQuery))
       /\ (searchQuery' # searchQuery \/ spAllDocuments' # spAllDocuments) =>
            \A r \in BagToSet(searchRequests(inflight')) :
                CopiesIn(r, inflight') <= CopiesIn(r, inflight)]_vars

\* After the query was changed to "I " the timer fired: one search request,
\* for "I ", is in flight and no timer is pending.
C20_Witness ==
    /\ searchQuery = <<"I", " ">>
    /\ spTimer = Null
    /\ searchRequests(inflight) = One(SearchRequest(<<"I", " ">>))

(***************************************************************************)
(* Properties of the document pane's controls and of the connection.        *)
(***************************************************************************)
\* C21: a step in which the pane's '<- Back to search' control is activated
\* leaves selectedDocId null, the URL hash '#/search' and the placeholder
\* shown in place of the document pane.
C21_BackCloses ==
    [][backClicks' # backClicks =>
            /\ selectedDocId' = NoDoc
            /\ locationHash' = HashSearch
            /\ dp' = Null]_vars

openSources(sources) == {k \in 1..Len(sources) : sources[k] = "open"}

\* C22: at most one connection is open at any time and none while App is
\* unmounted; a mount of App constructs at most one EventSource and setupSSE
\* never throws (a failed construction leaves the no-op cleanup); the unmount
\* closes the connection the mount opened; a step that invokes the reload
\* callback happens only while App is mounted and neither closes nor opens a
\* connection.
C22_ConnectionLifecycle ==
    [][/\ Cardinality(openSources(esSources')) <= 1
       /\ ~esMounted' => openSources(esSources') = {}
       /\ ~esThrew'
       /\ (esMounted' /\ ~esMounted) =>
            /\ Len(esSources') <= Len(esSources) + 1
            /\ esCleanup' = (IF Len(esSources') > Len(esSources) THEN Len(esSources') ELSE 0)
       /\ esReloadKey' # esReloadKey =>
            /\ esMounted
            /\ esSources' = esSources
            /\ esCleanup' = esCleanup
       /\ ~(esMounted' /\ ~esMounted) => Len(esSources') = Len(esSources)]_vars

\* App was mounted with a connection, its panes were reloaded, it was
\* unmounted, and it was mounted again with the construction failing.
C22_Witness ==
    /\ esMounts = 2
    /\ esMounted
    /\ esSources = <<"closed">>
    /\ esCleanup = 0
    /\ esReloadKey > 0
    /\ esQueue = <<>>

(***************************************************************************)
(* Properties of the preview of a result card.                              *)
(***************************************************************************)
\* The conditions under which the claim has the excerpt shown.
excerptCase ==
    /\ pvHasSearched
    /\ pvQuery # <<>>
    /\ pvMatchType \in {"content", "both"}
    /\ extractExcerpt(pvContent, pvQuery, contextCharsDefault) # Null

firstChars(text, n) == [k \in 1..(IF Len(text) < n THEN Len(text) ELSE n) |-> text[k]]

withoutMarkdown(text) == SelectSeq(text, LAMBDA c : c \notin {"#", "*", "backtick", "_"})

\* C24 as stated: the card shows the excerpt only in the excerpt case, and in
\* every other case the first 200 characters of the content, followed by
\* '...' exactly if the content is longer than 200 characters.
C24_PreviewSelection ==
    pvPc = "shown" =>
        /\ pvShown.kind = "excerpt" => excerptCase
        /\ ~excerptCase =>
            /\ pvShown.kind = "text"
            /\ pvShown.text = firstChars(pvContent, 200)
                              \o (IF Len(pvContent) > 200 THEN <<".", ".", ".">> ELSE <<>>)

\* C24 amended: the card shows the excerpt exactly in the excerpt case, as the
\* segments of highlightMatches with the characters # * ` _ removed from the
\* non-matching ones; in every other case it shows the first 200 characters
\* of the content with the characters # * ` _ removed, followed by '...'
\* exactly if the content is longer than 200 characters.
C24_PreviewSelectionStripped ==
    pvPc = "shown" =>
        /\ pvShown.kind = "excerpt" <=> excerptCase
        /\ excerptCase =>
            LET segs == highlightMatches(
                            extractExcerpt(pvContent, pvQuery, contextCharsDefault).excerpt, pvQuery)
            IN /\ Len(pvShown.parts) = Len(segs)
               /\ \A k \in 1..Len(segs) :
                    /\ pvShown.parts[k].highlighted = segs[k].isMatch
                    /\ pvShown.parts[k].text =
                          IF segs[k].isMatch THEN segs[k].text ELSE withoutMarkdown(segs[k].text)
        /\ ~excerptCase =>
            /\ pvShown.kind = "text"
            /\ pvShown.text = withoutMarkdown(firstChars(pvContent, 200))
                              \o (IF Len(pvContent) > 200 THEN <<".", ".", ".">> ELSE <<>>)

\* A card of a completed search whose match is in the title only: the
\* content holds the phrase and markdown, is longer than 200 characters, and
\* the default preview is shown.
C24_Witness ==
    /\ pvPc = "shown"
    /\ pvHasSearched
    /\ pvMatchType = "title"
    /\ extractExcerpt(pvContent, pvQuery, contextCharsDefault) # Null
    /\ Len(pvContent) > 200
    /\ \E k \in 1..200 : pvContent[k] = "*"
    /\ pvShown.kind = "text"

\* C25: once the debounce timer has fired for the current (non-blank) query
\* and no search request is in flight any more, the search pane shows the
\* results the server returned for that query, the most recently submitted
\* one: no response to an older query has replaced them.
C25_LatestQueryWins ==
    (/\ trim(searchQuery) # <<>>
     /\ spTimer = Null
     /\ spHasSearched
     /\ \A r \in BagToSet(inflight) : r.kind # "search")
        => spResults = searchResponseTo(searchQuery).results

\* C26: once no getDocument request is in flight any more, the document the
\* document pane shows is the document of its current documentId, not the one
\* an earlier request asked for.
C26_LatestDocumentWins ==
    (/\ dp # Null
     /\ \A r \in BagToSet(inflight) : r.kind # "doc"
     /\ documentView(dp) = "document")
        => dp.document = dp.documentId

====
